---- MODULE Spec2Model ----
(***************************************************************************)
(* The turn-based artillery engine of gerardpaapu/bernard: the phase       *)
(* machine of src/src/init.ts (third, keyboard-driven version), the        *)
(* in-place falling-sand pass of src/src/systems/sand.ts, the turn cursor   *)
(* and the elimination check.                                              *)
(*                                                                         *)
(* Numbers.  The grid is WIDTH x HEIGHT cells, scaled down from 512 x 384. *)
(* A cell of the Uint8Array holds 0 (empty) or 255 (sand).                 *)
(***************************************************************************)
EXTENDS Integers, Sequences, FiniteSets, TLC

\* ------------------------------------------------------------ bounds
\* Grid size of the model (the program's is 512 x 384).
WIDTH == 4
HEIGHT == 4
\* Loose grains an initial terrain of the settling specification may hold
\* besides an optional solid bottom row.
MaxLoose == 3

\* Key and health events the environment of the engine may make in a run.
MaxEvents == 3

\* The longest list of projectiles given to updateMissiles on its own.
MaxVolley == 2

\* The most presses of the fire key in the engine played turn after turn.
MaxPresses == 4

VARIABLES
    started,            \* whether init() has run the systems' init functions
    hung,               \* whether an update call has entered a loop it never leaves
    phase,              \* simState.phase
    missiles,           \* simState.missiles: records [x, y, vx, vy, explosionRadius]
    explosions,         \* simState.explosions: records [x, y, radius]
    explosionDuration,  \* simState.explosionDuration
    wind,               \* simState.wind
    sand,               \* simState.sand: the occupancy buffer, index y * WIDTH + x
    tanks,              \* simState.tanks: the roster, tank i of the code is tanks[i + 1]
    currentTankIndex,   \* simState.currentTankIndex: the turn cursor, or Undefined
    keys,               \* the module's keys object: which keys are held down
    keyPressed,         \* keyPressed.space: a fire request not yet consumed
    events,             \* how many key and health events the environment has made
    lastSettle,         \* what the last Sand.update call did: [ran, changed, moves]
    lastAdvance,        \* [ran, from]: whether the last step was a call of
                        \* advanceToNextTankTurn, and the cursor it started from
    lastTick,           \* [ran, from]: whether the last step was an update tick,
                        \* and the phase it started in
    lastCall,           \* the last direct call of processExplosions or
                        \* checkLineCollision: its arguments and what it returned
    shotLog             \* counts kept beside the engine: presses of the fire key,
                        \* projectiles spawned, assignments to simState.wind, and
                        \* the calls of advanceToNextTankTurn since the last
                        \* projectile was spawned

engineVars ==
    <<hung, phase, missiles, explosions, explosionDuration, wind, keys,
      keyPressed, events, lastTick, lastCall, shotLog>>

vars ==
    <<started, sand, tanks, currentTankIndex, lastSettle, lastAdvance, engineVars>>

\* ------------------------------------------------------------ numbers
\* JavaScript's undefined, for a field that was never assigned.  It is no
\* number: every comparison with it is false.
Undefined == -1000000

\* The result of arithmetic on undefined: NaN, which compares false too.
NaN == -2000000

\* Lengths are in tenths of a cell (Scale units to the cell), angles in
\* hundredths of a radian, sines and cosines in thousandths.
Scale == 10

IsNum(v) == v # Undefined /\ v # NaN

Plus(a, b) == IF IsNum(a) /\ IsNum(b) THEN a + b ELSE NaN

Minus(a, b) == IF IsNum(a) /\ IsNum(b) THEN a - b ELSE NaN

Lt(a, b) == IsNum(a) /\ IsNum(b) /\ a < b

Le(a, b) == IsNum(a) /\ IsNum(b) /\ a <= b

Gt(a, b) == IsNum(a) /\ IsNum(b) /\ a > b

Ge(a, b) == IsNum(a) /\ IsNum(b) /\ a >= b

Abs(a) == IF ~IsNum(a) THEN NaN ELSE IF a < 0 THEN -a ELSE a

\* Math.min and Math.max: NaN as soon as one argument is no number.
MathMin(a, b) == IF ~(IsNum(a) /\ IsNum(b)) THEN NaN ELSE IF a < b THEN a ELSE b

MathMax(a, b) == IF ~(IsNum(a) /\ IsNum(b)) THEN NaN ELSE IF a > b THEN a ELSE b

\* Math.floor of a length, in cells.
Floor(v) == IF IsNum(v) THEN v \div Scale ELSE NaN

\* Math.ceil of a length, in cells.
Ceil(v) == IF IsNum(v) THEN -((-v) \div Scale) ELSE NaN

\* Math.PI
PI == 314

\* Math.sin on 0 .. PI (Bhaskara's rational approximation, error < 0.002).
SinT(t) == (16000 * t * (PI - t)) \div (5 * PI * PI - 4 * t * (PI - t))

\* Math.sin and Math.cos of an angle.
Sin1000(a) ==
    IF ~IsNum(a) THEN NaN
    ELSE IF a % (2 * PI) <= PI THEN SinT(a % (2 * PI))
    ELSE -SinT((a % (2 * PI)) - PI)

Cos1000(a) == IF ~IsNum(a) THEN NaN ELSE Sin1000(a + PI \div 2)

\* a * b / 1000, for a product with a sine or a cosine.
Times1000(a, b) == IF IsNum(a) /\ IsNum(b) THEN (a * b) \div 1000 ELSE NaN

\* Math.sqrt, rounded down, of a squared distance up to bound * bound.
ISqrt(n, bound) == CHOOSE r \in 0 .. bound : r * r <= n /\ n < (r + 1) * (r + 1)

\* ------------------------------------------------------------ terrain
Cells == 0 .. (WIDTH * HEIGHT - 1)

Idx(x, y) == y * WIDTH + x

ColOf(i) == i % WIDTH

RowOf(i) == i \div WIDTH

EmptySand == [i \in Cells |-> 0]

\* The grid whose occupied cells are exactly S.
GridOf(S) == [i \in Cells |-> IF i \in S THEN 255 ELSE 0]

Occupied(g) == {i \in Cells : g[i] # 0}

\* for (let y = HEIGHT - 1; y >= 0; y--): the rows in the order the pass
\* visits them.
RowOrderTopDown == [k \in 1 .. HEIGHT |-> k - 1]

RowOrder == [k \in 1 .. HEIGHT |-> HEIGHT - k]

\* const up / left / middle / right of one loop iteration at (x, y).
UpOf(g, x, y) == IF y > 0 THEN g[Idx(x, y - 1)] ELSE 0

LeftOf(g, x, y) == IF x > 0 THEN g[Idx(x - 1, y)] ELSE 1

MiddleOf(g, x, y) == g[Idx(x, y)]

RightOf(g, x, y) == IF x < WIDTH - 1 THEN g[Idx(x + 1, y)] ELSE 1

\* if (left && middle && right) continue;
BlockedNever(left, middle, right) == FALSE

Blocked(left, middle, right) == left # 0 /\ middle # 0 /\ right # 0

\* if (x % 2 !== 0) { fall left } else { fall right }
FallsLeft(x) == x % 2 # 0

\* changed = true;
MarkChangedNever(s) == s

MarkChanged(s) == [s EXCEPT !.changed = TRUE]

\* A relocation as the pass made it: the two cells, what they held at that
\* moment, and left / middle / right of the grain at that moment.
MoveRecord(g, from, to) ==
    [from |-> from, to |-> to, src |-> g[from], dst |-> g[to],
     left |-> LeftOf(g, ColOf(from), RowOf(from) + 1),
     middle |-> MiddleOf(g, ColOf(from), RowOf(from) + 1),
     right |-> RightOf(g, ColOf(from), RowOf(from) + 1)]

\* state[from] = 0; state[to] = 255, with the relocation recorded.
RelocateKeepSource(s, from, to) ==
    [sand |-> [s.sand EXCEPT ![to] = 255],
     changed |-> s.changed,
     moves |-> Append(s.moves, MoveRecord(s.sand, from, to))]

Relocate(s, from, to) ==
    [sand |-> [s.sand EXCEPT ![from] = 0, ![to] = 255],
     changed |-> s.changed,
     moves |-> Append(s.moves, MoveRecord(s.sand, from, to))]

\* The two nested loops of updateSand, k the position in RowOrder and x the
\* column; s = [sand, changed, moves].  "x -= 2; continue" resumes at x - 1.
\* SandLoop binds the state reached so far to its value, and SandStep is one
\* iteration of the loop body on it.
RECURSIVE SandLoop(_, _, _)
SandStep(s, k, x) ==
    IF k > HEIGHT THEN s
    ELSE IF x >= WIDTH THEN SandLoop(s, k + 1, 0)
    ELSE
      LET y == RowOrder[k]
          up == UpOf(s.sand, x, y)
          left == LeftOf(s.sand, x, y)
          middle == MiddleOf(s.sand, x, y)
          right == RightOf(s.sand, x, y)
          c == MarkChanged(s)
      IN  IF up = 0 THEN SandLoop(s, k, x + 1)
          ELSE IF Blocked(left, middle, right) THEN SandLoop(s, k, x + 1)
          ELSE IF middle = 0
            THEN SandLoop(Relocate(c, Idx(x, y - 1), Idx(x, y)), k, x + 1)
          ELSE IF ~(left # 0 \/ right # 0)
            THEN IF FallsLeft(x)
                   THEN SandLoop(Relocate(c, Idx(x, y - 1), Idx(x - 1, y)), k, x - 1)
                   ELSE SandLoop(Relocate(c, Idx(x, y - 1), Idx(x + 1, y)), k, x + 1)
          ELSE IF left = 0
            THEN SandLoop(Relocate(c, Idx(x, y - 1), Idx(x - 1, y)), k, x - 1)
          ELSE IF right = 0
            THEN SandLoop(Relocate(c, Idx(x, y - 1), Idx(x + 1, y)), k, x + 1)
          ELSE SandLoop(c, k, x + 1)

SandLoop(s, k, x) == CHOOSE r \in {SandStep(t, k, x) : t \in {s}} : TRUE

\* updateSand(state): one in-place pass; the result holds the grid after the
\* pass, the returned flag and the relocations made, in order.
updateSand(g) == SandLoop([sand |-> g, changed |-> FALSE, moves |-> <<>>], 1, 0)

\* ------------------------------------------------------------ the double-buffered pass
\* updateSand(state, nextState) of the first engine: every grain is placed
\* in nextState from what state holds, and nextState is copied back.
\* left, middle and right are the three cells below the grain.
BelowLeft(g, x, y) == IF y < HEIGHT - 1 /\ x > 0 THEN g[Idx(x - 1, y + 1)] ELSE 1

Below(g, x, y) == IF y < HEIGHT - 1 THEN g[Idx(x, y + 1)] ELSE 1

BelowRight(g, x, y) ==
    IF y < HEIGHT - 1 /\ x < WIDTH - 1 THEN g[Idx(x + 1, y + 1)] ELSE 1

\* The cell of nextState that the grain of cell i sets; left[i] stands for
\* Math.random() < 0.5 in the iteration of cell i.
BufferedTarget(g, i, left) ==
    LET x == ColOf(i)
        y == RowOf(i)
        l == BelowLeft(g, x, y)
        m == Below(g, x, y)
        r == BelowRight(g, x, y)
    IN  IF l # 0 /\ m # 0 /\ r # 0 THEN i
        ELSE IF m = 0 THEN Idx(x, y + 1)
        ELSE IF ~(l # 0 \/ r # 0)
          THEN IF left[i] THEN Idx(x - 1, y + 1) ELSE Idx(x + 1, y + 1)
        ELSE IF l = 0 THEN Idx(x - 1, y + 1)
        ELSE Idx(x + 1, y + 1)

\* The grid after the pass and the returned flag.
updateSandBuffered(g, left) ==
    [sand |-> [c \in Cells |->
                 IF \E i \in Cells : g[i] # 0 /\ BufferedTarget(g, i, left) = c
                   THEN 255 ELSE 0],
     changed |-> \E i \in Cells : g[i] # 0 /\ BufferedTarget(g, i, left) # i]

\* ------------------------------------------------------------ settling alone
\* Initial terrains: an optional solid bottom row and up to MaxLoose grains
\* anywhere else.
RECURSIVE SubsetsUpTo(_, _)
SubsetsUpTo(S, n) ==
    IF n = 0 THEN {{}}
    ELSE LET prev == SubsetsUpTo(S, n - 1)
         IN  prev \cup {T \cup {c} : T \in prev, c \in S}

FloorCells == {Idx(x, HEIGHT - 1) : x \in 0 .. (WIDTH - 1)}

InitialTerrains ==
    {GridOf(T) : T \in SubsetsUpTo(Cells, MaxLoose)}
    \cup {GridOf(FloorCells \cup T) : T \in SubsetsUpTo(Cells \ FloorCells, MaxLoose)}

NoSettle == [ran |-> FALSE, changed |-> FALSE, moves |-> <<>>]

\* ------------------------------------------------------------ roster and cursor
\* const tankCount = 3;
tankCount == 3

\* y: -20 and angle: -Math.PI / 2 of a new tank (angles in 1/100 rad).
TankStartY == -200

TankStartAngle == -157

\* x: Math.random() * WIDTH, here the centre of the first or the last column.
TankXValues == {5, Scale * WIDTH - 5}

\* The x of the tanks of a roster: one draw per tank, listed left to right.
TankPlacements ==
    {xs \in [1 .. tankCount -> TankXValues] :
        \A i \in 1 .. (tankCount - 1) : xs[i] <= xs[i + 1]}

\* state.tanks.push({ x, y, angle, color }): health and power are not set.
NewTank(x) ==
    [x |-> x, y |-> TankStartY, angle |-> TankStartAngle,
     power |-> Undefined, health |-> Undefined]

\* tank.health > 0
IsAliveOrZero(t) == t.health # Undefined /\ t.health >= 0

IsAlive(t) == t.health # Undefined /\ t.health > 0

\* simState.tanks.filter((tank) => tank.health > 0), as roster indices
AliveIndices(ts) == {i \in 0 .. (Len(ts) - 1) : IsAlive(ts[i + 1])}

\* const nextIndex = (startIndex + i) % simState.tanks.length;
NextIndexFromSelf(startIndex, i, n) == (startIndex + i - 1) % n

NextIndex(startIndex, i, n) == (startIndex + i) % n

\* for (let i = 1; i <= simState.tanks.length; i++) { ... return nextIndex; }
RECURSIVE FindLoop(_, _, _)
FindLoop(ts, startIndex, i) ==
    IF i > Len(ts) THEN Undefined
    ELSE IF IsAlive(ts[NextIndex(startIndex, i, Len(ts)) + 1])
           THEN NextIndex(startIndex, i, Len(ts))
           ELSE FindLoop(ts, startIndex, i + 1)

findNextAliveTank(ts, startIndex) ==
    IF AliveIndices(ts) = {} THEN Undefined ELSE FindLoop(ts, startIndex, 1)

\* advanceToNextTankTurn(simState): the cursor after the call.
advanceToNextTankTurn(ts, cursor) ==
    IF Len(ts) = 0 THEN cursor
    ELSE IF cursor = Undefined THEN findNextAliveTank(ts, -1)
    ELSE findNextAliveTank(ts, cursor)

\* Health values a change of a tank's health may set.
HealthValues == {-10, 0, 1, 100}

\* simState.currentTankIndex ?? -1
StartIndexOf(c) == IF c = Undefined THEN -1 ELSE c

NoAdvance == [ran |-> FALSE, from |-> Undefined]

NoCall == [fn |-> "none"]

\* Kept beside the engine: presses of the fire key, projectiles spawned, calls
\* of advanceToNextTankTurn since the last spawn, and assignments to
\* simState.wind (state.wind is assigned in generateRandomMissiles only,
\* which no phase of updateSimulation calls).
\* turns: the cursor at each entry into the control phase, in order.
\* pressedIn: whether the pending fire request was made in the control phase
\* or elsewhere ("none" when no request is pending).
NoShots ==
    [presses |-> 0, shots |-> 0, advances |-> 0, winds |-> 0, turns |-> <<>>,
     pressedIn |-> "none"]
NoTick == [ran |-> FALSE, from |-> "none"]

\* const keys = { left: false, right: false, up: false, down: false, space: false }
KeyNames == {"left", "right", "up", "down", "space"}

NoKeys == [k \in KeyNames |-> FALSE]

\* ------------------------------------------------------------ ray cast
\* checkLineCollision returns null or a point; a third outcome is that its
\* while loop never ends.
Null == [kind |-> "null"]

Hang == [kind |-> "hang"]

Continue == [kind |-> "continue"]

Hit(x, y) == [kind |-> "hit", x |-> x, y |-> y]

\* const TANK_RADIUS = 10;
TANK_RADIUS == 100

\* y * WIDTH + x, NaN when a coordinate is
IndexOf(x, y) == IF IsNum(x) /\ IsNum(y) THEN y * WIDTH + x ELSE NaN

\* index >= 0 && index < state.sand.length && state.sand[index] > 0
SandAtIndex(g, index) ==
    IsNum(index) /\ index >= 0 /\ index < WIDTH * HEIGHT /\ g[index] > 0

\* x of a cell coordinate, as a length: the corner of the cell
CellCorner(x) == IF IsNum(x) THEN x * Scale ELSE NaN

\* x + 0.5 of a cell coordinate, as a length
CellCentre(x) == IF IsNum(x) THEN x * Scale + Scale \div 2 ELSE NaN

\* for (const tank of state.tanks) { ... } at the cell (x, y)
RECURSIVE TankHit(_, _, _, _)
TankHit(ts, i, x, y) ==
    IF i > Len(ts) THEN Continue
    ELSE IF Le(ts[i].health, 0) THEN TankHit(ts, i + 1, x, y)
    ELSE LET dx == Minus(CellCentre(x), ts[i].x)
             dy == Minus(CellCentre(y), ts[i].y)
             d2 == IF IsNum(dx) /\ IsNum(dy) THEN dx * dx + dy * dy ELSE NaN
         IN  IF Le(d2, TANK_RADIUS * TANK_RADIUS)
               THEN IF d2 = 0 THEN Hit(NaN, NaN)
                    ELSE Hit(ts[i].x + (dx * TANK_RADIUS) \div ISqrt(d2, TANK_RADIUS),
                             ts[i].y + (dy * TANK_RADIUS) \div ISqrt(d2, TANK_RADIUS))
               ELSE TankHit(ts, i + 1, x, y)

\* The checks of the loop body on the cell (x, y) it has stepped to.
CheckCell(x, y, g, ts) ==
    IF Lt(x, 0) \/ Ge(x, WIDTH) \/ Lt(y, 0) \/ Ge(y, HEIGHT) THEN Null
    ELSE IF SandAtIndex(g, IndexOf(x, y)) THEN Hit(CellCentre(x), CellCentre(y))
    ELSE TankHit(ts, 1, x, y)

\* while (x !== endX || y !== endY) { ... }, all coordinates being numbers
RECURSIVE RayLoop(_, _, _, _)
RayLoop(x, y, err, c) ==
    IF x = c.endX /\ y = c.endY THEN Null
    ELSE LET e2 == 2 * err
             x1 == IF e2 > -c.dy THEN x + c.sx ELSE x
             err1 == IF e2 > -c.dy THEN err - c.dy ELSE err
             y1 == IF e2 < c.dx THEN y + c.sy ELSE y
             err2 == IF e2 < c.dx THEN err1 + c.dx ELSE err1
             r == CheckCell(x1, y1, c.sand, c.tanks)
         IN  IF r.kind = "continue" THEN RayLoop(x1, y1, err2, c) ELSE r

\* The centre of the cell of (x0, y0) instead of the point itself.
AtStartCentre(x0, y0) == Hit(CellCentre(Floor(x0)), CellCentre(Floor(y0)))

\* return { x: x0, y: y0 };
AtStart(x0, y0) == Hit(x0, y0)

\* checkLineCollision(x0, y0, x1, y1, state).  When a coordinate is NaN, err
\* is NaN, both comparisons with e2 fail, the cell never moves and never
\* equals the end: the loop ends only if the start cell breaks or returns.
checkLineCollision(x0, y0, x1, y1, g, ts) ==
    LET startX == Floor(x0)
        startY == Floor(y0)
        endX == Floor(x1)
        endY == Floor(y1)
    IN  IF SandAtIndex(g, IndexOf(startX, startY)) THEN AtStart(x0, y0)
        ELSE IF IsNum(startX) /\ IsNum(startY) /\ IsNum(endX) /\ IsNum(endY)
          THEN RayLoop(startX, startY, Abs(endX - startX) - Abs(endY - startY),
                       [endX |-> endX, endY |-> endY,
                        dx |-> Abs(endX - startX), dy |-> Abs(endY - startY),
                        sx |-> IF startX < endX THEN 1 ELSE -1,
                        sy |-> IF startY < endY THEN 1 ELSE -1,
                        sand |-> g, tanks |-> ts])
        ELSE IF CheckCell(startX, startY, g, ts).kind = "continue" THEN Hang
        ELSE CheckCell(startX, startY, g, ts)

\* ------------------------------------------------------------ missiles
\* const gravity = 0.2;
gravity == 2

\* const turretLength = 15; ... (turretLength + 2)
MuzzleLength == 170

\* const explosionRadius = Math.random() * 60 + 10: the two ends of the range.
RadiusValues == {100, 700}

\* fireMissileFromTank(state, tankIndex): an index outside the roster returns
\* with no effect; otherwise one missile is pushed. state.wind is not
\* assigned.
fireMissileFromTank(st, tankIndex, explosionRadius) ==
    IF tankIndex >= Len(st.tanks) \/ tankIndex < 0 THEN st
    ELSE LET tank == st.tanks[tankIndex + 1]
             missileSpeed == IF IsNum(tank.power)
                               THEN (10 * tank.power * Scale) \div 100 ELSE NaN
         IN  [st EXCEPT !.missiles = Append(@,
                [x |-> Plus(tank.x, Times1000(Cos1000(tank.angle), MuzzleLength)),
                 y |-> Plus(tank.y, Times1000(Sin1000(tank.angle), MuzzleLength)),
                 vx |-> Times1000(Cos1000(tank.angle), missileSpeed),
                 vy |-> Times1000(Sin1000(tank.angle), missileSpeed),
                 explosionRadius |-> explosionRadius]),
                      !.shotLog = [@ EXCEPT !.shots = @ + 1, !.advances = 0]]

\* missile.vy += gravity; missile.vx += state.wind; then the position
MoveMissile(m, w) ==
    [x |-> Plus(m.x, Plus(m.vx, w)), y |-> Plus(m.y, Plus(m.vy, gravity)),
     vx |-> Plus(m.vx, w), vy |-> Plus(m.vy, gravity),
     explosionRadius |-> m.explosionRadius]

\* missile.x < 0 || missile.x >= WIDTH || missile.y >= HEIGHT
OutOfBounds(m) ==
    Lt(m.x, 0) \/ Ge(m.x, WIDTH * Scale) \/ Ge(m.y, HEIGHT * Scale)

\* state.missiles.splice(i, 1)
RemoveAt(seq, i) == SubSeq(seq, 1, i - 1) \o SubSeq(seq, i + 1, Len(seq))

\* for (let i = state.missiles.length - 1; i >= 0; i--) { ... }
RECURSIVE MissileLoop(_, _, _)
MissileLoop(s, i, st) ==
    IF i < 1 THEN s
    ELSE LET m == MoveMissile(s.missiles[i], st.wind)
             moved == [s EXCEPT !.missiles[i] = m]
             c == checkLineCollision(s.missiles[i].x, s.missiles[i].y, m.x, m.y,
                                     st.sand, st.tanks)
         IN  IF OutOfBounds(m)
               THEN MissileLoop([moved EXCEPT !.missiles = RemoveAt(@, i)], i - 1, st)
             ELSE IF c.kind = "hang" THEN [moved EXCEPT !.hung = TRUE]
             ELSE IF c.kind = "hit"
               THEN MissileLoop(
                      [missiles |-> RemoveAt(moved.missiles, i),
                       explosionsToCreate |->
                           Append(s.explosionsToCreate,
                                  [x |-> c.x, y |-> c.y, radius |-> m.explosionRadius]),
                       collisionDetected |-> TRUE,
                       hung |-> FALSE], i - 1, st)
             ELSE MissileLoop(moved, i - 1, st)

\* The batch of the tick before, were it kept and added to.
CarriedBatch(st) == st.explosions

\* const explosionsToCreate: Explosion[] = []
FreshBatch(st) == <<>>

\* updateMissiles(state): the missiles left, the explosions created, whether
\* a collision was detected, and whether a ray cast never returned.
updateMissiles(st) ==
    MissileLoop([missiles |-> st.missiles, explosionsToCreate |-> FreshBatch(st),
                 collisionDetected |-> FALSE, hung |-> FALSE],
                Len(st.missiles), st)

\* ------------------------------------------------------------ explosions
\* const xMin = Math.max(0, Math.floor(x - radius)), without the clamp
XMinUnclamped(e) == Floor(e.x - e.radius)

\* const xMin = Math.max(0, Math.floor(x - radius));
XMin(e) == MathMax(0, Floor(e.x - e.radius))

\* const xMax = Math.min(WIDTH - 1, Math.ceil(x + radius));
XMax(e) == MathMin(WIDTH - 1, Ceil(e.x + e.radius))

\* const yMin = Math.max(0, Math.floor(y - radius));
YMin(e) == MathMax(0, Floor(e.y - e.radius))

\* const yMax = Math.min(HEIGHT - 1, Math.ceil(y + radius));
YMax(e) == MathMin(HEIGHT - 1, Ceil(e.y + e.radius))

\* distanceSquared <= radius * radius, with dx = cx - x and dy = cy - y
InBlast(e, cx, cy) ==
    (cx * Scale - e.x) * (cx * Scale - e.x) + (cy * Scale - e.y) * (cy * Scale - e.y)
        <= e.radius * e.radius

\* The indices processExplosions writes for one explosion: cy * WIDTH + cx
\* for every (cx, cy) of the two loops that passes the distance test. With
\* a centre that is not a number the loops run no iteration.
ClearedBy(e) ==
    IF ~(IsNum(e.x) /\ IsNum(e.y)) THEN {}
    ELSE {q[2] * WIDTH + q[1] :
            q \in {c \in (XMin(e) .. XMax(e)) \X (YMin(e) .. YMax(e)) :
                      InBlast(e, c[1], c[2])}}

\* processExplosions(state); a write at an index outside the buffer has no
\* effect
processExplosions(g, exps) ==
    [i \in Cells |->
        IF \E k \in 1 .. Len(exps) : i \in ClearedBy(exps[k]) THEN 0 ELSE g[i]]

\* Explosions.update(state) without its call of processExplosions
ExplosionsUpdateSkipped(st) == st

\* Explosions.update(state): if (state.explosionDuration === 30) processExplosions
ExplosionsUpdate(st) ==
    IF st.explosionDuration = 30
      THEN [st EXCEPT !.sand = processExplosions(st.sand, st.explosions)]
      ELSE st

\* ------------------------------------------------------------ tanks
\* const TANK_GRAVITY = 0.8;
TANK_GRAVITY == 8

\* A tank taken to rest wherever it is.
OnSandAlways(g, t) == TRUE

\* tankCenterX and tankBottom are in the grid and the cell holds sand
OnSand(g, t) ==
    /\ Floor(t.x) >= 0
    /\ Floor(t.x) < WIDTH
    /\ Floor(t.y + TANK_RADIUS) >= 0
    /\ Floor(t.y + TANK_RADIUS) < HEIGHT
    /\ g[Idx(Floor(t.x), Floor(t.y + TANK_RADIUS))] # 0

\* for (let y = tankBottom; y >= 0; y--) if (state.sand[index]) { ...; break; }
\* the rows of column x, at or above tankBottom, that hold sand
SandUpFrom(g, x, tankBottom) == {y \in 0 .. tankBottom : g[Idx(x, y)] # 0}

MaxOf(S) == CHOOSE m \in S : \A k \in S : k <= m

MinOf(S) == CHOOSE m \in S : \A k \in S : m <= k

\* The topmost of the rows S, as a search downward from row 0 would find it.
TopSandDown(S) == MinOf(S)

\* The row the search upward from tankBottom stops at: the first with sand,
\* the lowest of S.
FirstSandUp(S) == MaxOf(S)

\* highestSandY after the loop over the columns tankLeft .. tankRight
HighestSandY(g, t) ==
    MinOf({HEIGHT} \cup
          {FirstSandUp(SandUpFrom(g, x, Floor(t.y + TANK_RADIUS))) :
             x \in {c \in Floor(t.x - TANK_RADIUS) .. Floor(t.x + TANK_RADIUS) :
                      /\ c >= 0
                      /\ c < WIDTH
                      /\ SandUpFrom(g, c, Floor(t.y + TANK_RADIUS)) # {}}})

\* if (tank.y + TANK_RADIUS > HEIGHT) tank.y = HEIGHT - TANK_RADIUS;
ClampToBottom(t) ==
    IF t.y + TANK_RADIUS > HEIGHT * Scale
      THEN [t EXCEPT !.y = HEIGHT * Scale - TANK_RADIUS]
      ELSE t

\* The body of updateTanks' loop for one tank.
UpdateTank(g, t) ==
    IF ~OnSand(g, t) THEN ClampToBottom([t EXCEPT !.y = @ + TANK_GRAVITY])
    ELSE IF HighestSandY(g, t) < HEIGHT
      THEN ClampToBottom([t EXCEPT !.y = HighestSandY(g, t) * Scale - TANK_RADIUS])
    ELSE ClampToBottom(t)

\* updateTanks(state): the tanks after the call and allTanksOnSand
updateTanks(g, ts) ==
    [tanks |-> [i \in 1 .. Len(ts) |-> UpdateTank(g, ts[i])],
     allTanksOnSand |-> \A i \in 1 .. Len(ts) : OnSand(g, ts[i])]

\* ------------------------------------------------------------ control
\* const ANGLE_SPEED = 0.03;
ANGLE_SPEED == 3

\* const POWER_SPEED = 2.0;
POWER_SPEED == 2

\* Math.min(100, ...) and Math.max(10, ...) of the power
MaxPower == 100

MinPower == 10

\* The tank after the arrow keys and the clamp of updateTankControl.
AimTank(t, ks) ==
    LET a1 == IF ks["left"] THEN t.angle - ANGLE_SPEED ELSE t.angle
        a2 == IF ks["right"] THEN a1 + ANGLE_SPEED ELSE a1
        p1 == IF ks["up"] THEN MathMin(MaxPower, Plus(t.power, POWER_SPEED)) ELSE t.power
        p2 == IF ks["down"] THEN MathMax(MinPower, Minus(p1, POWER_SPEED)) ELSE p1
    IN  [t EXCEPT !.angle = MathMax(PI, MathMin(2 * PI, a2)), !.power = p2]

\* The phase after a shot, were the control phase kept.
AfterFireControl == "control"

\* simState.phase = 'missiles' after fireMissileFromTank
AfterFire == "missiles"

\* The first tank of the roster, whatever the cursor.
AimedIndexFirst(st) == 1

\* const tank = simState.tanks[simState.currentTankIndex] (sequences start
\* at 1)
AimedIndex(st) == st.currentTankIndex + 1

\* updateTankControl(simState)
updateTankControl(st, ks, explosionRadius) ==
    IF st.currentTankIndex = Undefined THEN st
    ELSE LET aimed == [st EXCEPT !.tanks[AimedIndex(st)] = AimTank(@, ks)]
         IN  IF st.keyPressed
               THEN [fireMissileFromTank(aimed, st.currentTankIndex, explosionRadius)
                        EXCEPT !.keyPressed = FALSE, !.phase = AfterFire,
                               !.shotLog.pressedIn = "none"]
               ELSE aimed

\* Where a fire request made by a press in phase p comes from; a request
\* that is already pending keeps its origin.
PressOrigin(log, pending, p) ==
    IF pending THEN log.pressedIn
    ELSE IF p = "control" THEN "control" ELSE "elsewhere"

\* ------------------------------------------------------------ the phases
\* The state with the call of advanceToNextTankTurn left out.
AdvanceCursorSkipped(st) == st

\* advanceToNextTankTurn(simState), as updateSimulation calls it
AdvanceCursor(st) ==
    [st EXCEPT
       !.currentTankIndex = advanceToNextTankTurn(st.tanks, st.currentTankIndex),
       !.shotLog.advances = @ + 1]

\* case 'missiles'
MissilesPhase(st) ==
    LET r == updateMissiles(st)
        after == [st EXCEPT !.missiles = r.missiles, !.explosions = r.explosionsToCreate]
    IN  IF r.hung THEN [st EXCEPT !.hung = TRUE]
        ELSE IF r.collisionDetected
          THEN [after EXCEPT !.phase = "explosions", !.explosionDuration = 30]
        ELSE IF Len(r.missiles) = 0
          THEN [AdvanceCursor(after) EXCEPT !.phase = "sand"]
        ELSE after

\* The countdown running twice as fast.
CountdownByTwo(d) == d - 2

\* simState.explosionDuration--;
Countdown(d) == d - 1

\* The batch after the countdown, were it kept.
KeptBatch(batch) == batch

\* simState.explosions = [] when the countdown is over
DiscardedBatch(batch) == <<>>

\* case 'explosions'
ExplosionsPhase(st) ==
    LET e == ExplosionsUpdate(st)
    IN  IF Countdown(e.explosionDuration) <= 0
          THEN [AdvanceCursor(e) EXCEPT
                  !.explosionDuration = Countdown(@),
                  !.phase = "sand",
                  !.explosions = DiscardedBatch(@)]
          ELSE [e EXCEPT !.explosionDuration = Countdown(@)]

\* The phase after a settled pass, were it the tanks phase.
AfterSettleTanks(n) == "tanks"

\* if (simState.missiles.length === 0) simState.phase = 'idle';
\* else simState.phase = 'missiles';
AfterSettle(n) == IF n = 0 THEN "idle" ELSE "missiles"

\* case 'sand'
SandPhase(st) ==
    LET r == updateSand(st.sand)
    IN  IF r.changed THEN [st EXCEPT !.sand = r.sand]
        ELSE [st EXCEPT !.sand = r.sand, !.phase = AfterSettle(Len(st.missiles))]

\* case 'tanks'
\* simState.phase = 'control', for the tank at the cursor
EnterControl(st) ==
    [st EXCEPT !.phase = "control",
               !.shotLog.turns = Append(@, st.currentTankIndex)]

TanksPhase(st) ==
    LET r == updateTanks(st.sand, st.tanks)
        after == [st EXCEPT !.tanks = r.tanks]
        next == findNextAliveTank(r.tanks, StartIndexOf(st.currentTankIndex))
    IN  IF ~r.allTanksOnSand THEN after
        ELSE IF /\ st.currentTankIndex # Undefined
                /\ IsAlive(r.tanks[st.currentTankIndex + 1])
          THEN EnterControl(after)
        ELSE IF next # Undefined
          THEN EnterControl([after EXCEPT !.currentTankIndex = next])
        ELSE [after EXCEPT !.currentTankIndex = next]

\* simState.tanks.findIndex((tank) => tank.health > 0)
WinnerIndex(ts) == MinOf(AliveIndices(ts))

\* if (simState.phase === 'gameover') return;
AlreadyOverNever(st) == FALSE

AlreadyOver(st) == st.phase = "gameover"

\* aliveTanks.length <= 1
FewLivingNone(n) == n < 1

FewLiving(n) == n <= 1

\* checkGameOverCondition(simState)
checkGameOverCondition(st) ==
    IF AlreadyOver(st) THEN st
    ELSE IF FewLiving(Cardinality(AliveIndices(st.tanks)))
      THEN IF Cardinality(AliveIndices(st.tanks)) = 1
             THEN [st EXCEPT !.phase = "gameover",
                             !.currentTankIndex = WinnerIndex(st.tanks)]
             ELSE [st EXCEPT !.phase = "gameover", !.currentTankIndex = Undefined]
    ELSE st

\* The phase after idle, were it the control phase.
AfterIdleControl == "control"

\* case 'idle': simState.phase = 'tanks';
AfterIdle == "tanks"

\* The switch of updateSimulation.
PhaseStep(st, ks, explosionRadius) ==
    CASE st.phase = "missiles" -> MissilesPhase(st)
      [] st.phase = "explosions" -> ExplosionsPhase(st)
      [] st.phase = "sand" -> SandPhase(st)
      [] st.phase = "idle" -> [st EXCEPT !.phase = AfterIdle]
      [] st.phase = "tanks" -> TanksPhase(st)
      [] st.phase = "control" -> updateTankControl(st, ks, explosionRadius)
      [] st.phase = "gameover" -> st

\* updateSimulation(simState); a tick that never returns reaches no check.
updateSimulation(st, ks, explosionRadius) ==
    CHOOSE r \in {IF p.hung THEN p ELSE checkGameOverCondition(p) :
                    p \in {PhaseStep(st, ks, explosionRadius)}} : TRUE

\* ------------------------------------------------------------ construction
\* const simState = { phase: 'sand', missiles: [], explosions: [],
\* explosionDuration: 0, wind: 0, sand: new Uint8Array(WIDTH * HEIGHT),
\* tanks: [] } and the module's keys and keyPressed, before the systems' init
\* functions run.
Init ==
    /\ started = FALSE
    /\ hung = FALSE
    /\ phase = "sand"
    /\ missiles = <<>>
    /\ explosions = <<>>
    /\ explosionDuration = 0
    /\ wind = 0
    /\ keys = NoKeys
    /\ keyPressed = FALSE
    /\ events = 0
    /\ lastTick = NoTick
    /\ lastCall = NoCall
    /\ shotLog = NoShots
    /\ sand = EmptySand
    /\ tanks = <<>>
    /\ currentTankIndex = Undefined
    /\ lastSettle = NoSettle
    /\ lastAdvance = NoAdvance

\* Sand.init(state) -> initialiseSand(state.sand): every cell is set at
\* random (below the skyline with probability 0.6).
InitialiseSand ==
    /\ ~started
    /\ started' = TRUE
    /\ sand' \in InitialTerrains
    /\ UNCHANGED <<tanks, currentTankIndex, lastSettle, lastAdvance, engineVars>>

\* Sand.update(state): one pass over state.sand.
Settle ==
    /\ started
    /\ \E r \in {updateSand(sand)} :
          /\ sand' = r.sand
          /\ lastSettle' = [ran |-> TRUE, changed |-> r.changed, moves |-> r.moves]
    /\ UNCHANGED <<started, tanks, currentTankIndex, lastAdvance, engineVars>>

NextSand == InitialiseSand \/ Settle

SpecSand == Init /\ [][NextSand]_vars

\* init() runs to its end and its clock then calls update every 1000/60 ms,
\* so a step that is due is eventually made.
SpecSandFair == SpecSand /\ WF_vars(NextSand)

\* ------------------------------------------------------------ the cursor alone
\* Tanks.init(state): generateRandomTanks, then currentTankIndex = 0.
InitialiseTanks ==
    /\ ~started
    /\ started' = TRUE
    /\ \E xs \in TankPlacements :
          tanks' = [i \in 1 .. tankCount |-> NewTank(xs[i])]
    /\ currentTankIndex' = 0
    /\ UNCHANGED <<sand, lastSettle, lastAdvance, engineVars>>

\* A change of one tank's health from outside the engine (damage, a test).
SetHealth(i, h) ==
    /\ started
    /\ tanks' = [tanks EXCEPT ![i + 1].health = h]
    /\ lastAdvance' = NoAdvance
    /\ UNCHANGED <<started, sand, currentTankIndex, lastSettle, engineVars>>

\* A call of advanceToNextTankTurn(simState).
AdvanceTurn ==
    /\ started
    /\ currentTankIndex' = advanceToNextTankTurn(tanks, currentTankIndex)
    /\ lastAdvance' = [ran |-> TRUE, from |-> currentTankIndex]
    /\ UNCHANGED <<started, sand, tanks, lastSettle, engineVars>>

NextTurn ==
    \/ InitialiseTanks
    \/ \E i \in 0 .. (tankCount - 1), h \in HealthValues : SetHealth(i, h)
    \/ AdvanceTurn

SpecTurn == Init /\ [][NextTurn]_vars

\* ------------------------------------------------------------ the engine
\* The bottom row fully occupied and one more grain, in the leftmost column
\* at row r.
FloorAndGrain(r) == GridOf(FloorCells \cup {Idx(0, r)})

\* The terrains the engine starts on: a full bottom row, the same with one
\* loose grain at the top left, and one with a gap in the bottom row.
EngineTerrains ==
    {GridOf(FloorCells), FloorAndGrain(0), GridOf(FloorCells \ {Idx(0, HEIGHT - 1)})}

\* Health values the environment of the engine sets.
EngineHealthValues == {0, 100}

\* init(canvas) from Sand.init to setupKeyboardListeners.
Initialise ==
    /\ ~started
    /\ started' = TRUE
    /\ sand' \in EngineTerrains
    /\ \E xs \in TankPlacements :
          tanks' = [i \in 1 .. tankCount |-> NewTank(xs[i])]
    /\ currentTankIndex' = 0
    /\ UNCHANGED <<lastSettle, lastAdvance, engineVars>>

\* simState and keyPressed as one record
SimState ==
    [phase |-> phase, missiles |-> missiles, explosions |-> explosions,
     explosionDuration |-> explosionDuration, wind |-> wind, sand |-> sand,
     tanks |-> tanks, currentTankIndex |-> currentTankIndex,
     keyPressed |-> keyPressed, hung |-> FALSE, shotLog |-> shotLog]

\* One call of updateSimulation(simState) by the interval timer.
Update ==
    /\ started
    /\ ~hung
    /\ \E explosionRadius \in RadiusValues :
         \E r \in {updateSimulation(SimState, keys, explosionRadius)} :
            IF r.hung
              THEN /\ hung' = TRUE
                   /\ UNCHANGED <<phase, missiles, explosions, explosionDuration,
                                  wind, sand, tanks, currentTankIndex, keyPressed,
                                  lastTick, shotLog>>
              ELSE /\ hung' = FALSE
                   /\ phase' = r.phase
                   /\ missiles' = r.missiles
                   /\ explosions' = r.explosions
                   /\ explosionDuration' = r.explosionDuration
                   /\ wind' = r.wind
                   /\ sand' = r.sand
                   /\ tanks' = r.tanks
                   /\ currentTankIndex' = r.currentTankIndex
                   /\ keyPressed' = r.keyPressed
                   /\ shotLog' = r.shotLog
                   /\ lastTick' = [ran |-> TRUE, from |-> phase]
    /\ UNCHANGED <<started, keys, events, lastSettle, lastAdvance, lastCall>>

\* keyPressed.space after a keydown of Space, were a repeat to count
RequestFireOnRepeat(held, pending) == TRUE

\* if (!keys.space) { keyPressed.space = true; }
RequestFire(held, pending) == IF ~held THEN TRUE ELSE pending

\* The keydown listener; a key that is held sends keydown again and again.
KeyDown(k) ==
    /\ started
    /\ ~hung
    /\ events < MaxEvents
    /\ events' = events + 1
    /\ keyPressed' = IF k = "space" THEN RequestFire(keys["space"], keyPressed)
                       ELSE keyPressed
    /\ keys' = [keys EXCEPT ![k] = TRUE]
    /\ shotLog' = IF k = "space" /\ ~keys["space"]
                    THEN [shotLog EXCEPT !.presses = @ + 1,
                                         !.pressedIn = PressOrigin(shotLog, keyPressed, phase)]
                    ELSE shotLog
    /\ lastTick' = NoTick
    /\ UNCHANGED <<started, hung, phase, missiles, explosions, explosionDuration,
                   wind, sand, tanks, currentTankIndex, lastSettle, lastAdvance,
                   lastCall>>

\* The keyup listener.
KeyUp(k) ==
    /\ started
    /\ ~hung
    /\ keys[k]
    /\ events < MaxEvents
    /\ events' = events + 1
    /\ keys' = [keys EXCEPT ![k] = FALSE]
    /\ lastTick' = NoTick
    /\ UNCHANGED <<started, hung, phase, missiles, explosions, explosionDuration,
                   wind, sand, tanks, currentTankIndex, keyPressed, lastSettle,
                   lastAdvance, lastCall, shotLog>>

\* A change of one tank's health between two ticks (damage, a test).
ChangeHealth(i, h) ==
    /\ started
    /\ ~hung
    /\ events < MaxEvents
    /\ events' = events + 1
    /\ tanks' = [tanks EXCEPT ![i + 1].health = h]
    /\ lastTick' = NoTick
    /\ UNCHANGED <<started, hung, phase, missiles, explosions, explosionDuration,
                   wind, sand, currentTankIndex, keys, keyPressed, lastSettle,
                   lastAdvance, lastCall, shotLog>>

Next ==
    \/ Initialise
    \/ Update
    \/ \E k \in KeyNames : KeyDown(k)
    \/ \E k \in KeyNames : KeyUp(k)
    \/ \E i \in 0 .. (tankCount - 1), h \in EngineHealthValues : ChangeHealth(i, h)

Spec == Init /\ [][Next]_vars

\* ------------------------------------------------------------ the engine, tanks equipped
\* Power and angle values a roster is equipped with: the weakest shot and a
\* medium one, aimed level to the left and straight up.
EquipPowers == {10, 50}

EquipAngles == {PI, (3 * PI) \div 2}

\* init(canvas), after which the fields generateRandomTanks leaves unset are
\* assigned from outside, before the first tick of the timer: every tank
\* gets health 100, a power and an aim. In the run that follows the fire key
\* is pressed and released and tanks are killed from outside.
InitialiseEquipped ==
    /\ ~started
    /\ started' = TRUE
    /\ sand' \in EngineTerrains
    /\ \E xs \in TankPlacements, p \in EquipPowers, a \in EquipAngles :
          tanks' = [i \in 1 .. tankCount |->
                      [NewTank(xs[i]) EXCEPT !.health = 100, !.power = p, !.angle = a]]
    /\ currentTankIndex' = 0
    /\ UNCHANGED <<lastSettle, lastAdvance, engineVars>>

NextShot ==
    \/ InitialiseEquipped
    \/ Update
    \/ KeyDown("space")
    \/ KeyUp("space")
    \/ \E i \in 0 .. (tankCount - 1) : ChangeHealth(i, 0)

SpecShot == Init /\ [][NextShot]_vars

\* ------------------------------------------------------------ the crater alone
\* Explosion centres: left of, inside and right of the grid, and above, inside
\* and below it. A collision point is a cell centre of the grid or a point on
\* the edge of a tank, which can lie TANK_RADIUS outside the grid.
CraterXs == {-80, 5, 22, Scale * WIDTH + 70}

CraterYs == {-80, -35, 22, Scale * HEIGHT + 70}

\* state.explosions.push({ x, y, radius: explosionRadius })
CraterExplosions ==
    {[x |-> x, y |-> y, radius |-> r] : x \in CraterXs, y \in CraterYs, r \in RadiusValues}

\* The batches handed to processExplosions: one explosion, or two.
CraterBatches ==
    {<<e>> : e \in CraterExplosions}
    \cup {<<e, f>> : e \in CraterExplosions, f \in CraterExplosions}

\* The terrains a crater is cut into: every cell occupied, and the terrains
\* of the engine.
CraterTerrains == {GridOf(Cells)} \cup EngineTerrains

\* A terrain and a batch of explosions, as Explosions.update finds them on
\* the first tick of an explosions phase.
SetUpCrater ==
    /\ ~started
    /\ started' = TRUE
    /\ sand' \in CraterTerrains
    /\ explosions' \in CraterBatches
    /\ UNCHANGED <<hung, phase, missiles, explosionDuration, wind, keys, keyPressed,
                   events, lastTick, lastCall, shotLog, tanks, currentTankIndex, lastSettle,
                   lastAdvance>>

\* A call of processExplosions(state).
ClearCircle ==
    /\ started
    /\ lastCall = NoCall
    /\ sand' = processExplosions(sand, explosions)
    /\ lastCall' = [fn |-> "processExplosions", before |-> sand]
    /\ UNCHANGED <<started, hung, phase, missiles, explosions, explosionDuration,
                   wind, keys, keyPressed, events, lastTick, tanks, currentTankIndex,
                   lastSettle, lastAdvance, shotLog>>

NextCrater == SetUpCrater \/ ClearCircle

SpecCrater == Init /\ [][NextCrater]_vars

\* ------------------------------------------------------------ the ray cast alone
\* Start points of a ray: a point of each cell of the grid, of the cells one
\* column left of it and of the cells up to two rows above it (a missile is
\* launched above the terrain and is kept while it is above the top edge).
RayStarts ==
    {<<x * Scale + 2, y * Scale + 2>> : x \in -1 .. (WIDTH - 1), y \in -2 .. (HEIGHT - 1)}

\* End points of a ray: a point of each cell of the grid and of the cells one
\* column right of it and one row below it, and the point a missile with no
\* numeric velocity moves to.
RayEnds ==
    {<<x * Scale + 7, y * Scale + 7>> : x \in 0 .. WIDTH, y \in 0 .. HEIGHT}
    \cup {<<NaN, NaN>>}

\* A tank of a ray's roster: on sand of row 1 or on the bottom row, with the
\* health generateRandomTanks leaves it (none) or one set from outside.
RayTank(x, y, h) == [NewTank(x) EXCEPT !.y = y, !.health = h]

RayTankYs == {Scale - TANK_RADIUS, Scale * (HEIGHT - 1) - TANK_RADIUS}

RayHealthValues == {Undefined, 0, 100}

\* The rosters of a ray: one tank, or one tank at the left and one at the
\* right.
RayRosters ==
    {<<RayTank(x, y, h)>> : x \in TankXValues, y \in RayTankYs, h \in RayHealthValues}
    \cup {<<RayTank(5, y[1], h[1]), RayTank(Scale * WIDTH - 5, y[2], h[2])>> :
            y \in RayTankYs \X RayTankYs, h \in RayHealthValues \X RayHealthValues}

\* The terrain and tanks a ray is cast through: up to two occupied cells and
\* no tank, or tanks over the empty grid or over the full bottom row.
SetUpRay ==
    /\ ~started
    /\ started' = TRUE
    /\ \/ /\ sand' \in {GridOf(T) : T \in SubsetsUpTo(Cells, 2)}
          /\ tanks' = <<>>
       \/ /\ sand' \in {EmptySand, GridOf(FloorCells)}
          /\ tanks' \in RayRosters
    /\ UNCHANGED <<currentTankIndex, lastSettle, lastAdvance, engineVars>>

\* A call of checkLineCollision(x0, y0, x1, y1, state).
CastRay ==
    /\ started
    /\ lastCall = NoCall
    /\ \E p \in RayStarts, q \in RayEnds :
          lastCall' = [fn |-> "checkLineCollision",
                       x0 |-> p[1], y0 |-> p[2], x1 |-> q[1], y1 |-> q[2],
                       result |-> checkLineCollision(p[1], p[2], q[1], q[2], sand, tanks)]
    /\ UNCHANGED <<started, hung, phase, missiles, explosions, explosionDuration,
                   wind, keys, keyPressed, events, lastTick, sand, tanks,
                   currentTankIndex, lastSettle, lastAdvance, shotLog>>

NextRay == SetUpRay \/ CastRay

SpecRay == Init /\ [][NextRay]_vars

\* ------------------------------------------------------------ the engine, ticks kept coming
\* setInterval calls updateSimulation every 1000 / FRAME_RATE ms until the
\* page is closed: a tick that would change the state is eventually taken.
\* A tick whose ray cast does not return (hung) blocks the only thread, and
\* no later tick or event is delivered.
SpecFair == Spec /\ WF_vars(Update)

\* ------------------------------------------------------------ the engine, turn after turn
\* The engine with equipped tanks that all stay alive, the fire key pressed
\* and released up to MaxPresses times, at any time.
PressSpace ==
    /\ started
    /\ ~hung
    /\ ~keys["space"]
    /\ shotLog.presses < MaxPresses
    /\ keyPressed' = RequestFire(keys["space"], keyPressed)
    /\ keys' = [keys EXCEPT !["space"] = TRUE]
    /\ shotLog' = [shotLog EXCEPT !.presses = @ + 1,
                                  !.pressedIn = PressOrigin(shotLog, keyPressed, phase)]
    /\ lastTick' = NoTick
    /\ UNCHANGED <<started, hung, phase, missiles, explosions, explosionDuration,
                   wind, sand, tanks, currentTankIndex, events, lastSettle,
                   lastAdvance, lastCall>>

ReleaseSpace ==
    /\ started
    /\ ~hung
    /\ keys["space"]
    /\ keys' = [keys EXCEPT !["space"] = FALSE]
    /\ lastTick' = NoTick
    /\ UNCHANGED <<started, hung, phase, missiles, explosions, explosionDuration,
                   wind, sand, tanks, currentTankIndex, keyPressed, events,
                   lastSettle, lastAdvance, lastCall, shotLog>>

NextTurns == InitialiseEquipped \/ Update \/ PressSpace \/ ReleaseSpace

SpecTurns == Init /\ [][NextTurns]_vars

\* ------------------------------------------------------------ the two passes
\* The double-buffered pass applied pass after pass to the terrains of the
\* settling specification, each call recorded with the grid it started from.
SettleBuffered ==
    /\ started
    /\ \E left \in [{i \in Cells : sand[i] # 0 /\ RowOf(i) < HEIGHT - 1} -> BOOLEAN] :
         \E r \in {updateSandBuffered(sand, left)} :
            /\ sand' = r.sand
            /\ lastCall' = [fn |-> "updateSandBuffered", before |-> sand,
                            changed |-> r.changed]
    /\ UNCHANGED <<started, tanks, currentTankIndex, lastSettle, lastAdvance,
                   hung, phase, missiles, explosions, explosionDuration, wind,
                   keys, keyPressed, events, lastTick, shotLog>>

NextBuffered == InitialiseSand \/ SettleBuffered

SpecBuffered == Init /\ [][NextBuffered]_vars

\* ------------------------------------------------------------ the engine left alone
\* The engine with equipped tanks and nothing but the interval timer: no key
\* is pressed and no health changes, so the terrain settles, the tanks drop
\* and the terrain stays as it is. setInterval calls updateSimulation again
\* and again, so a tick that would change the state is eventually taken.
NextDrop == InitialiseEquipped \/ Update

SpecDrop == Init /\ [][NextDrop]_vars /\ WF_vars(Update)

\* ------------------------------------------------------------ the drop alone
\* updateTanks applied tick after tick to two new tanks, each over any
\* column, on a terrain that does not change. The tanks phase comes after
\* the sand has settled, so the terrains are settled ones: up to MaxLoose
\* grains on the bottom row, and a full bottom row with any grains on it.
RestTerrains ==
    {GridOf(T) : T \in SubsetsUpTo(FloorCells, MaxLoose)}
      \cup {GridOf(FloorCells \cup {Idx(x, HEIGHT - 2) : x \in X}) :
               X \in SUBSET (0 .. (WIDTH - 1))}

RestXValues == {x * Scale + 5 : x \in 0 .. (WIDTH - 1)}

SetUpRest ==
    /\ ~started
    /\ started' = TRUE
    /\ sand' \in RestTerrains
    /\ \E x1 \in RestXValues, x2 \in RestXValues :
          tanks' = <<NewTank(x1), NewTank(x2)>>
    /\ UNCHANGED <<currentTankIndex, lastSettle, lastAdvance, engineVars>>

\* A call of updateTanks(state).
DropTanks ==
    /\ started
    /\ tanks' = updateTanks(sand, tanks).tanks
    /\ lastCall' = [fn |-> "updateTanks", tanks |-> tanks,
                    onSand |-> [i \in 1 .. Len(tanks) |-> OnSand(sand, tanks[i])],
                    result |-> updateTanks(sand, tanks).allTanksOnSand]
    /\ UNCHANGED <<started, sand, currentTankIndex, lastSettle, lastAdvance,
                   hung, phase, missiles, explosions, explosionDuration, wind,
                   keys, keyPressed, events, lastTick, shotLog>>

NextRest == SetUpRest \/ DropTanks

SpecRest == Init /\ [][NextRest]_vars

\* ------------------------------------------------------------ firing alone
\* fireMissileFromTank called on its own with every index from one below the
\* roster to one past it.
FireIndexes == -1 .. tankCount

\* A call of fireMissileFromTank(state, tankIndex). The function has no throw
\* statement and reads state.tanks[tankIndex] only after the test of the
\* index, so it returns normally for every index.
FireFrom(tankIndex) ==
    /\ started
    /\ lastCall = NoCall
    /\ \E explosionRadius \in RadiusValues :
         \E r \in {fireMissileFromTank(SimState, tankIndex, explosionRadius)} :
            /\ missiles' = r.missiles
            /\ shotLog' = r.shotLog
            /\ lastCall' = [fn |-> "fireMissileFromTank", tankIndex |-> tankIndex,
                            missiles |-> missiles, threw |-> FALSE]
    /\ UNCHANGED <<started, sand, tanks, currentTankIndex, lastSettle,
                   lastAdvance, hung, phase, explosions, explosionDuration, wind,
                   keys, keyPressed, events, lastTick>>

NextFire == InitialiseEquipped \/ \E i \in FireIndexes : FireFrom(i)

SpecFire == Init /\ [][NextFire]_vars

\* ------------------------------------------------------------ the missiles alone
\* updateMissiles applied once to a list of up to MaxVolley projectiles over
\* a terrain of at most one grain or the floor, with or without a batch left
\* in state.explosions.
VolleyStarts == {<<15, 5>>, <<25, 15>>}

\* One cell down, one cell to the right, and out over the left edge (after
\* gravity has been added to vy).
VolleyVelocities == {<<0, 8>>, <<10, -2>>, <<-30, -2>>}

VolleyMissiles ==
    {[x |-> p[1], y |-> p[2], vx |-> v[1], vy |-> v[2], explosionRadius |-> r] :
        p \in VolleyStarts, v \in VolleyVelocities, r \in RadiusValues}

VolleyLists ==
    UNION {[1 .. n -> VolleyMissiles] : n \in 0 .. MaxVolley}

VolleyBatches == {<<>>, <<[x |-> 5, y |-> 5, radius |-> 100]>>}

VolleyWinds == {0, 1}

VolleyTerrains ==
    {GridOf(T) : T \in SubsetsUpTo(Cells, 1)} \cup {GridOf(FloorCells)}

SetUpVolley ==
    /\ ~started
    /\ started' = TRUE
    /\ sand' \in VolleyTerrains
    /\ tanks' = <<>>
    /\ missiles' \in VolleyLists
    /\ explosions' \in VolleyBatches
    /\ wind' \in VolleyWinds
    /\ UNCHANGED <<currentTankIndex, lastSettle, lastAdvance, hung, phase,
                   explosionDuration, keys, keyPressed, events, lastTick,
                   lastCall, shotLog>>

\* A call of updateMissiles(state).
FlyVolley ==
    /\ started
    /\ lastCall = NoCall
    /\ \E r \in {updateMissiles([missiles |-> missiles, explosions |-> explosions,
                                  wind |-> wind, sand |-> sand, tanks |-> tanks])} :
          /\ ~r.hung
          /\ missiles' = r.missiles
          /\ explosions' = r.explosionsToCreate
          /\ lastCall' = [fn |-> "updateMissiles", missiles |-> missiles,
                          explosions |-> explosions,
                          result |-> r.collisionDetected]
    /\ UNCHANGED <<started, sand, tanks, currentTankIndex, lastSettle,
                   lastAdvance, hung, phase, explosionDuration, wind, keys,
                   keyPressed, events, lastTick, shotLog>>

NextVolley == SetUpVolley \/ FlyVolley

SpecVolley == Init /\ [][NextVolley]_vars

\* ------------------------------------------------------------ claims: elimination
\* The roster indices of the tanks whose health is a number above zero.
Living(ts) == {i \in 0 .. (Len(ts) - 1) : ts[i + 1].health # Undefined /\ ts[i + 1].health > 0}

\* What the end of a tick must look like when at most one tank lives.
OverWith(ts, p, c) ==
    Cardinality(Living(ts)) <= 1 =>
        /\ p = "gameover"
        /\ \A i \in Living(ts) : c = i
        /\ Living(ts) = {} => c = Undefined

\* C1: a tick of updateSimulation that starts in a phase other than gameover
\* and ends with at most one tank of health above zero ends in phase
\* gameover, the cursor on the sole survivor or absent when there is none.
\* The runs of the engine enter every phase but explosions (no projectile of
\* a tank without power detonates), so the second conjunct runs an
\* explosions tick on the fields of every reachable state.
C1_GameOverDetected ==
    /\ [][(Update /\ phase # "gameover" /\ ~hung')
            => OverWith(tanks', phase', currentTankIndex')]_vars
    /\ [](started /\ ~hung =>
            \A radius \in RadiusValues :
               \E r \in {updateSimulation([SimState EXCEPT !.phase = "explosions"],
                                          keys, radius)} :
                  OverWith(r.tanks, r.phase, r.currentTankIndex))

\* C1 witness: a tick that started in the control phase, tank 0 having lost
\* its health during its own turn, has ended the game with the cursor on
\* tank 1, the only tank left.
C1_Witness ==
    /\ lastTick.ran
    /\ lastTick.from = "control"
    /\ phase = "gameover"
    /\ Living(tanks) = {1}
    /\ currentTankIndex = 1

\* C2: a tick of updateSimulation in phase gameover leaves the phase, the
\* cursor, the terrain, the projectiles, the explosions, the countdown and
\* every tank as they were, and consumes no fire request.
C2_GameOverTerminal ==
    [][(Update /\ phase = "gameover")
         => UNCHANGED <<phase, currentTankIndex, sand, missiles, explosions,
                        explosionDuration, tanks, keyPressed, wind>>]_vars

\* C2 witness: a tick has run in gameover although two tanks had been given
\* health again and a fire request was pending; the request is still there.
C2_Witness ==
    /\ lastTick.ran
    /\ lastTick.from = "gameover"
    /\ phase = "gameover"
    /\ Cardinality(Living(tanks)) >= 2
    /\ keyPressed
    /\ missiles = <<>>

\* ------------------------------------------------------------ claims: the cursor
HealthAt(ts, i) == ts[i + 1].health

\* C3 (as stated): in every state that calls of advanceToNextTankTurn and
\* changes of the tanks' health reach, a present cursor names a tank whose
\* health is above zero.
C3_CursorAlwaysAlive ==
    (/\ currentTankIndex # Undefined
     /\ \A i \in 1 .. Len(tanks) : tanks[i].health # Undefined)
        => HealthAt(tanks, currentTankIndex) > 0

\* C3 (amended): right after every call of advanceToNextTankTurn, a present
\* cursor names a tank whose health is above zero.
C3_CursorAliveAfterAdvance ==
    [][AdvanceTurn =>
         (currentTankIndex' # Undefined =>
            /\ HealthAt(tanks', currentTankIndex') # Undefined
            /\ HealthAt(tanks', currentTankIndex') > 0)]_vars

\* C3 witness: a call has just moved the cursor past a tank without health
\* onto a living one.
C3_Witness ==
    /\ lastAdvance.ran
    /\ lastAdvance.from = 0
    /\ currentTankIndex = 2
    /\ HealthAt(tanks, 1) = 0
    /\ HealthAt(tanks, 2) > 0

\* The search's starting point: the cursor, or -1 when there is none.
StartOf(c) == IF c = Undefined THEN -1 ELSE c

\* The step counts j in 1 .. n whose tank (c + j) mod n has health above zero.
LivingSteps(ts, c) ==
    {j \in 1 .. Len(ts) :
        /\ HealthAt(ts, (StartOf(c) + j) % Len(ts)) # Undefined
        /\ HealthAt(ts, (StartOf(c) + j) % Len(ts)) > 0}

\* C4: advanceToNextTankTurn puts the cursor on the first tank with health
\* above zero in the cyclic order c+1, ..., c+n (mod n), c being the cursor
\* or -1 without one; it stays on c when c is the only living tank and is
\* absent when no tank lives.
C4_AdvancePicksNextLiving ==
    [][AdvanceTurn =>
         /\ LivingSteps(tanks, currentTankIndex) = {}
               => currentTankIndex' = Undefined
         /\ \A j \in LivingSteps(tanks, currentTankIndex) :
               (\A k \in LivingSteps(tanks, currentTankIndex) : j <= k)
                  => currentTankIndex' =
                       (StartOf(currentTankIndex) + j) % Len(tanks)
         /\ (/\ currentTankIndex # Undefined
             /\ LivingSteps(tanks, currentTankIndex) = {Len(tanks)})
               => currentTankIndex' = currentTankIndex]_vars

\* C4 witness: a call that started on the last tank has wrapped around and
\* skipped tank 0, which has no health, to stop on tank 1.
C4_Witness ==
    /\ lastAdvance.ran
    /\ lastAdvance.from = tankCount - 1
    /\ currentTankIndex = 1
    /\ HealthAt(tanks, 0) <= 0
    /\ HealthAt(tanks, 0) # Undefined
    /\ HealthAt(tanks, 1) > 0

\* ------------------------------------------------------------ claims: settling
HasMove(ls, from, to) ==
    \E i \in 1 .. Len(ls.moves) : ls.moves[i].from = from /\ ls.moves[i].to = to

\* C5: repeated passes reach a pass that returns changed = false, and every
\* relocation on the way moves a grain exactly one row down.
C5_SettlingTerminates ==
    /\ [](\A i \in 1 .. Len(lastSettle.moves) :
            RowOf(lastSettle.moves[i].to) = RowOf(lastSettle.moves[i].from) + 1)
    /\ <>(lastSettle.ran /\ ~lastSettle.changed)

\* C5 witness: a pass has reported no movement on a grid that holds a grain
\* above the bottom row (a pile at rest, not an empty or flat grid).
C5_Witness ==
    /\ lastSettle.ran
    /\ ~lastSettle.changed
    /\ \E i \in Cells : sand[i] # 0 /\ RowOf(i) < HEIGHT - 1

\* C6: a pass never changes the number of occupied cells; every relocation
\* empties an occupied cell and fills a cell that was empty at that moment.
C6_GrainsConserved ==
    [][Settle =>
        /\ Cardinality(Occupied(sand')) = Cardinality(Occupied(sand))
        /\ \A i \in 1 .. Len(lastSettle'.moves) :
              /\ lastSettle'.moves[i].src # 0
              /\ lastSettle'.moves[i].dst = 0
              /\ sand'[lastSettle'.moves[i].to] # 0]_vars

\* C6 witness: a pass has relocated a grain out of the leftmost and one out
\* of the rightmost column.
C6_Witness ==
    /\ lastSettle.ran
    /\ \E i \in 1 .. Len(lastSettle.moves) : ColOf(lastSettle.moves[i].from) = 0
    /\ \E i \in 1 .. Len(lastSettle.moves) :
          ColOf(lastSettle.moves[i].from) = WIDTH - 1

\* C7: every grain with an empty cell directly below it at the start of a
\* pass is relocated by that pass to that cell (one row lower, same column).
C7_StraightFallFirst ==
    [][Settle =>
        \A x \in 0 .. (WIDTH - 1), y \in 1 .. (HEIGHT - 1) :
            (sand[Idx(x, y - 1)] # 0 /\ sand[Idx(x, y)] = 0)
                => HasMove(lastSettle', Idx(x, y - 1), Idx(x, y))]_vars

\* C8: the pass returns changed = true iff it relocated a grain; a pass that
\* returns false leaves the grid as it was and one that returns true does not.
C8_ChangedIffRelocated ==
    [][Settle =>
        /\ lastSettle'.changed <=> (lastSettle'.moves # <<>>)
        /\ ~lastSettle'.changed => sand' = sand
        /\ lastSettle'.changed => sand' # sand]_vars

\* C8 witness: a pass has returned changed = true after relocating at least
\* two grains.
C8_Witness ==
    /\ lastSettle.ran
    /\ lastSettle.changed
    /\ Len(lastSettle.moves) >= 2

\* C9 as stated: the first pass moves the top-left grain to row 1 and returns
\* true, and the second pass returns false.
C9_SecondPassSettled ==
    [][Settle =>
        /\ sand = FloorAndGrain(0)
              => (sand' = FloorAndGrain(1) /\ lastSettle'.changed)
        /\ sand = FloorAndGrain(1) => ~lastSettle'.changed]_vars

\* C9 amended: the grain falls one row per pass, each such pass returning
\* true, until it rests on the bottom row (row HEIGHT - 2); the pass after
\* that returns false and leaves the grid alone.  On the 4 x 4 grid: row 1
\* after the first pass, row 2 after the second, false from the third.
C9_OneRowPerPass ==
    [][Settle =>
        /\ \A r \in 0 .. (HEIGHT - 3) :
              sand = FloorAndGrain(r)
                  => (sand' = FloorAndGrain(r + 1) /\ lastSettle'.changed)
        /\ sand = FloorAndGrain(HEIGHT - 2)
              => (sand' = sand /\ ~lastSettle'.changed)]_vars

\* C9 witness: the grain has come to rest on the bottom row and a pass has
\* returned changed = false.
C9_Witness ==
    /\ sand = FloorAndGrain(HEIGHT - 2)
    /\ lastSettle.ran
    /\ ~lastSettle.changed

\* C10: a grain blocked below with both diagonals empty (at the moment the
\* pass handles it) can end on either diagonal: for the same grid a pass
\* that puts it below-left and a pass that puts it below-right both exist.
C10_EitherDiagonal ==
    \A i \in 1 .. Len(updateSand(sand).moves) :
        LET m == updateSand(sand).moves[i]
        IN  (m.middle # 0 /\ m.left = 0 /\ m.right = 0)
                => /\ ENABLED (Settle /\ HasMove(lastSettle', m.from, m.from + WIDTH - 1))
                   /\ ENABLED (Settle /\ HasMove(lastSettle', m.from, m.from + WIDTH + 1))

\* ------------------------------------------------------------ claims: craters
\* Whether cell i lies in the closed disc of explosion e: the coordinates
\* (column, row) of the cell are at most radius away from the centre.
InDisc(i, e) ==
    /\ e.x # NaN
    /\ e.y # NaN
    /\ ((i % WIDTH) * Scale - e.x) * ((i % WIDTH) * Scale - e.x)
         + ((i \div WIDTH) * Scale - e.y) * ((i \div WIDTH) * Scale - e.y)
         <= e.radius * e.radius

\* How many cells of g are occupied.
Count(g) == Cardinality({i \in Cells : g[i] # 0})

\* C11: a call of processExplosions empties exactly the cells of the grid that
\* lie in the disc of an explosion of the batch and leaves every other cell
\* as it was, so the number of occupied cells never goes up; this holds as
\* well for discs that overlap an edge of the grid or lie beyond it.
C11_CraterIsTheDisc ==
    lastCall.fn = "processExplosions" =>
        /\ \A i \in Cells :
              sand[i] = IF \E k \in 1 .. Len(explosions) : InDisc(i, explosions[k])
                          THEN 0
                          ELSE lastCall.before[i]
        /\ Count(sand) <= Count(lastCall.before)

\* A single explosion left of the grid, on a fully occupied grid, has
\* emptied some cells and kept others.
C11_Witness ==
    /\ lastCall.fn = "processExplosions"
    /\ Len(explosions) = 1
    /\ explosions[1].x < 0
    /\ Count(lastCall.before) = WIDTH * HEIGHT
    /\ Count(sand) > 0
    /\ Count(sand) < WIDTH * HEIGHT

\* ------------------------------------------------------------ claims: ray cast
\* Whether the last step was a ray cast.
Cast == lastCall.fn = "checkLineCollision"

\* Whether (x, y) is a cell of the grid, and whether it is an occupied one.
InGrid(x, y) == x >= 0 /\ x < WIDTH /\ y >= 0 /\ y < HEIGHT

OccupiedAt(x, y) == InGrid(x, y) /\ sand[y * WIDTH + x] # 0

\* The cell of the start point of the last ray cast.
StartCell == <<lastCall.x0 \div Scale, lastCall.y0 \div Scale>>

\* C12: a ray cast whose start point lies in an occupied cell of the grid
\* returns the start point itself, whatever the end point and the tanks.
C12_OccupiedStartReturnsStart ==
    (Cast /\ OccupiedAt(StartCell[1], StartCell[2])) =>
        lastCall.result = [kind |-> "hit", x |-> lastCall.x0, y |-> lastCall.y0]

\* A ray cast from an occupied cell towards another cell, with a living tank
\* on the roster.
C12_Witness ==
    /\ Cast
    /\ OccupiedAt(StartCell[1], StartCell[2])
    /\ lastCall.x1 # NaN
    /\ lastCall.x1 \div Scale # StartCell[1]
    /\ \E i \in 1 .. Len(tanks) : tanks[i].health = 100
    /\ lastCall.result.kind = "hit"

\* The integer line walk from the cell (x, y) to the cell (l.ex, l.ey): the
\* cells after (x, y), in the order met, the end cell last.
RECURSIVE LineWalk(_, _, _, _)
LineWalk(x, y, err, l) ==
    IF x = l.ex /\ y = l.ey THEN <<>>
    ELSE LET stepX == 2 * err > -l.dy
             stepY == 2 * err < l.dx
             nx == IF stepX THEN x + l.sx ELSE x
             ny == IF stepY THEN y + l.sy ELSE y
             nerr == err - (IF stepX THEN l.dy ELSE 0) + (IF stepY THEN l.dx ELSE 0)
         IN  <<(<<nx, ny>>)>> \o LineWalk(nx, ny, nerr, l)

\* The cells the last ray cast has to walk over after its start cell, its end
\* point being a number.
LineCells ==
    LET ex == lastCall.x1 \div Scale
        ey == lastCall.y1 \div Scale
        dx == IF ex >= StartCell[1] THEN ex - StartCell[1] ELSE StartCell[1] - ex
        dy == IF ey >= StartCell[2] THEN ey - StartCell[2] ELSE StartCell[2] - ey
    IN  LineWalk(StartCell[1], StartCell[2], dx - dy,
                 [ex |-> ex, ey |-> ey, dx |-> dx, dy |-> dy,
                  sx |-> IF StartCell[1] < ex THEN 1 ELSE -1,
                  sy |-> IF StartCell[2] < ey THEN 1 ELSE -1])

\* The positions of LineCells that are occupied cells of the grid.
OccupiedSteps ==
    {k \in 1 .. Len(LineCells) : OccupiedAt(LineCells[k][1], LineCells[k][2])}

\* The centre of the cell c, as a collision point.
CentreOf(c) ==
    [kind |-> "hit", x |-> c[1] * Scale + Scale \div 2, y |-> c[2] * Scale + Scale \div 2]

\* A ray cast with a numeric end point from an unoccupied cell of the grid.
FreeStartCast ==
    /\ Cast
    /\ lastCall.x1 # NaN
    /\ InGrid(StartCell[1], StartCell[2])
    /\ ~OccupiedAt(StartCell[1], StartCell[2])

\* C13: with no tanks, a ray cast from an unoccupied cell of the grid returns
\* no collision when no cell of the integer line walk from the start cell to
\* the end cell is occupied, and otherwise the centre of the first occupied
\* cell of that walk.
C13_FirstOccupiedCell ==
    (FreeStartCast /\ tanks = <<>>) =>
        lastCall.result =
            IF OccupiedSteps = {} THEN [kind |-> "null"]
            ELSE CentreOf(LineCells[CHOOSE k \in OccupiedSteps :
                                       \A j \in OccupiedSteps : k <= j])

\* Two occupied cells lie on the walk of a ray cast without tanks, and the
\* ray cast has returned a collision.
C13_Witness ==
    /\ FreeStartCast
    /\ tanks = <<>>
    /\ Cardinality(OccupiedSteps) = 2
    /\ lastCall.result.kind = "hit"

\* A ray cast without tanks over a walk of three cells or more, none of
\* them occupied, has returned no collision.
C13_WitnessNone ==
    /\ FreeStartCast
    /\ tanks = <<>>
    /\ Len(LineCells) >= 3
    /\ OccupiedSteps = {}
    /\ Cardinality({i \in Cells : sand[i] # 0}) = 2
    /\ lastCall.result.kind = "null"

\* C14: a ray cast never tunnels: whenever an occupied cell of the grid lies
\* on the integer line walk from the start cell to an end cell inside the
\* grid, the ray cast returns a collision, for start points inside the grid
\* and outside it (above the top edge, for one).
C14_NeverTunnels ==
    (/\ Cast
     /\ lastCall.x1 # NaN
     /\ InGrid(lastCall.x1 \div Scale, lastCall.y1 \div Scale)
     /\ OccupiedSteps # {})
        => lastCall.result.kind = "hit"

\* The positions of LineCells the walk reaches before it leaves the grid.
WalkedSteps ==
    {k \in 1 .. Len(LineCells) :
        \A j \in 1 .. k : InGrid(LineCells[j][1], LineCells[j][2])}

\* Whether the centre of the cell c is within the proximity radius of tank t.
NearTank(c, t) ==
    (c[1] * Scale + Scale \div 2 - t.x) * (c[1] * Scale + Scale \div 2 - t.x)
      + (c[2] * Scale + Scale \div 2 - t.y) * (c[2] * Scale + Scale \div 2 - t.y)
      <= 100 * 100

\* The walked positions whose cell is near a tank with health > 0.
LivingTankSteps ==
    {k \in WalkedSteps :
        \E i \in 1 .. Len(tanks) :
           /\ tanks[i].health # Undefined
           /\ tanks[i].health > 0
           /\ NearTank(LineCells[k], tanks[i])}

\* C15: a ray cast reports a tank hit only for a living tank: a walk over
\* unoccupied cells that comes near no tank with health > 0 returns no
\* collision, and the first walked cell near a tank with health > 0 yields a
\* collision if no occupied cell was met earlier.
C15_TankHitOnlyLiving ==
    FreeStartCast =>
        /\ (WalkedSteps \cap OccupiedSteps = {} /\ LivingTankSteps = {})
              => lastCall.result.kind = "null"
        /\ (/\ LivingTankSteps # {}
            /\ \A k \in OccupiedSteps : \E j \in LivingTankSteps : j <= k)
              => lastCall.result.kind = "hit"

\* ------------------------------------------------------------ claims: the explosions phase
\* The terrain g with the discs of every explosion of the batch emptied.
Cratered(g, batch) ==
    [i \in Cells |-> IF \E k \in 1 .. Len(batch) : InDisc(i, batch[k]) THEN 0 ELSE g[i]]

\* C16: within one explosions phase the craters are cut exactly once: the
\* phase is entered with the countdown at 30, the tick that finds the
\* countdown at 30 empties the disc of every explosion of the batch, and no
\* later tick of the phase (countdown below 30) changes a cell of the terrain.
C16_CraterOnFirstTickOnly ==
    [][/\ (phase # "explosions" /\ phase' = "explosions") => explosionDuration' = 30
       /\ (phase = "explosions" /\ Update) =>
             /\ sand' = IF explosionDuration = 30 THEN Cratered(sand, explosions) ELSE sand
             /\ explosionDuration' < explosionDuration]_vars

\* Two ticks into an explosions phase the terrain holds fewer occupied cells
\* than any terrain the engine starts on.
C16_Witness ==
    /\ phase = "explosions"
    /\ lastTick.ran
    /\ lastTick.from = "explosions"
    /\ explosionDuration = 28
    /\ Count(sand) < WIDTH - 1

\* C17: the explosions phase lasts exactly 30 ticks: it is entered only from
\* missiles, by a tick that leaves a batch of explosions and the countdown at
\* 30; every tick of the phase lowers the countdown by one; the phase lasts
\* while the countdown is above 0, and the tick that brings it to 0 advances
\* the cursor, empties the batch and sets the phase to sand (unless that tick
\* finds at most one living tank and ends the game).
C17_ThirtyTicks ==
    [][/\ (phase # "explosions" /\ phase' = "explosions") =>
             /\ Update
             /\ phase = "missiles"
             /\ explosionDuration' = 30
             /\ explosions' # <<>>
       /\ (phase = "explosions" /\ Update) =>
             /\ explosionDuration \in 1 .. 30
             /\ explosionDuration' = explosionDuration - 1
             /\ IF explosionDuration' = 0
                  THEN /\ explosions' = <<>>
                       /\ phase' \in {"sand", "gameover"}
                       /\ phase' = "sand" =>
                             currentTankIndex' =
                                 advanceToNextTankTurn(tanks, currentTankIndex)
                  ELSE /\ explosions' = explosions
                       /\ phase' \in {"explosions", "gameover"}
                       /\ phase' = "explosions" => currentTankIndex' = currentTankIndex
      ]_vars

\* The thirtieth tick of an explosions phase has handed the turn from tank 0
\* to tank 1 and set the phase to sand.
C17_Witness ==
    /\ lastTick.ran
    /\ lastTick.from = "explosions"
    /\ phase = "sand"
    /\ explosionDuration = 0
    /\ explosions = <<>>
    /\ currentTankIndex = 1

\* ------------------------------------------------------------ claims: the phase cycle
\* C18 as stated: the phase stays sand while the settle pass of the tick
\* reports movement, and the tick whose settle pass reports no movement sets
\* the phase to tanks (unless it ends the game).
C18_SettledSetsTanks ==
    [][(phase = "sand" /\ Update /\ phase' # "gameover") =>
          phase' = IF updateSand(sand).changed THEN "sand" ELSE "tanks"]_vars

\* C18, amended: the phase stays sand while the settle pass of the tick
\* reports movement; the tick whose settle pass reports no movement sets the
\* phase to idle when no projectile is left and to missiles otherwise; the
\* tick after idle sets the phase to tanks (each unless it ends the game).
C18_SettledSetsIdleThenTanks ==
    [][/\ (phase = "sand" /\ Update /\ phase' # "gameover") =>
             phase' = IF updateSand(sand).changed THEN "sand"
                      ELSE IF missiles = <<>> THEN "idle"
                      ELSE "missiles"
       /\ (phase = "idle" /\ Update /\ phase' # "gameover") => phase' = "tanks"]_vars

\* A tick has run a settle pass that moved nothing, on terrain cut by an
\* explosion, and has set the phase to idle.
C18_Witness ==
    /\ lastTick.ran
    /\ lastTick.from = "sand"
    /\ phase = "idle"
    /\ Count(sand) < WIDTH - 1
    /\ currentTankIndex = 1

\* Whether tank t rests: the cell under its centre, TANK_RADIUS below it, is
\* an occupied cell of the grid.
Resting(t) == OccupiedAt(t.x \div Scale, (t.y + 100) \div Scale)

\* C19: the phase changes from tanks to control only in a tick that finds
\* every tank resting, and at the end of that tick the cursor is present
\* and on a tank with health > 0: it has stayed where it was if that tank
\* lives and has moved to the next living tank otherwise.
C19_ControlOnlyWhenResting ==
    [][(phase = "tanks" /\ phase' = "control" /\ Update) =>
          /\ \A i \in 1 .. Len(tanks) : Resting(tanks[i])
          /\ currentTankIndex' # Undefined
          /\ tanks'[currentTankIndex' + 1].health > 0
          /\ currentTankIndex' =
                IF currentTankIndex # Undefined /\ tanks[currentTankIndex + 1].health > 0
                  THEN currentTankIndex
                  ELSE findNextAliveTank(tanks, StartIndexOf(currentTankIndex))]_vars

\* A tanks tick has found the cursor on a dead tank 0, moved it to tank 1
\* and set the phase to control.
C19_Witness ==
    /\ lastTick.ran
    /\ lastTick.from = "tanks"
    /\ phase = "control"
    /\ tanks[1].health = 0
    /\ currentTankIndex = 1

\* The phase changes the statement lists.
ListedChanges ==
    {<<"idle", "tanks">>, <<"tanks", "control">>, <<"control", "missiles">>,
     <<"missiles", "explosions">>, <<"missiles", "sand">>, <<"explosions", "sand">>,
     <<"sand", "tanks">>, <<"sand", "missiles">>, <<"sand", "idle">>}
    \cup {<<p, "gameover">> :
            p \in {"idle", "tanks", "control", "missiles", "explosions", "sand"}}

Settled(g) == updateSand(g).moves = <<>> /\ ~updateSand(g).changed

\* C21: whenever a projectile is spawned (the phase goes from control to
\* missiles), the terrain is settled: a settle pass applied to it at that
\* moment would relocate nothing and report changed = false.
C21_SettledWhenFired ==
    [][(phase = "control" /\ phase' = "missiles") =>
          (Settled(sand') /\ Len(missiles') = Len(missiles) + 1)]_vars

\* A projectile has been spawned over a terrain whose loose grain had to
\* fall first: the full bottom row and one grain resting on it.
C21_Witness ==
    /\ lastTick.ran
    /\ lastTick.from = "control"
    /\ phase = "missiles"
    /\ Len(missiles) = 1
    /\ Count(sand) = WIDTH + 1
    /\ sand[Idx(0, HEIGHT - 2)] # 0

\* C22: the cursor is advanced exactly once per shot: after a projectile
\* was spawned, advanceToNextTankTurn has not run while the phase is missiles
\* or explosions and has run exactly once from the tick that leaves these
\* phases until the next projectile is spawned, so it has run exactly once
\* at the next entry into control, whether the projectile detonated or left
\* the field.
C22_OneAdvancePerShot ==
    shotLog.shots > 0 =>
        /\ phase \in {"missiles", "explosions"} => shotLog.advances = 0
        /\ phase \in {"sand", "idle", "tanks", "control"} => shotLog.advances = 1
        /\ shotLog.advances <= 1

\* The phase has entered control again after a projectile that left the
\* field, with the turn handed from tank 0 to tank 1.
C22_Witness ==
    /\ lastTick.ran
    /\ lastTick.from = "tanks"
    /\ phase = "control"
    /\ shotLog.shots = 1
    /\ shotLog.advances = 1
    /\ currentTankIndex = 1

\* The explosions phase of a projectile that detonated has ended and the
\* turn has been handed on.
C22_WitnessDetonated ==
    /\ lastTick.ran
    /\ lastTick.from = "explosions"
    /\ phase = "sand"
    /\ shotLog.shots = 1
    /\ shotLog.advances = 1
    /\ currentTankIndex = 1

\* Where fireMissileFromTank puts the projectile of tank t: at the end of the
\* turret.
MuzzleOf(t) ==
    <<Plus(t.x, Times1000(Cos1000(t.angle), MuzzleLength)),
      Plus(t.y, Times1000(Sin1000(t.angle), MuzzleLength))>>

\* C23: a fire press is consumed once: no more projectiles are spawned than
\* the fire key was pressed (a held key counts once); a control tick that
\* finds a request clears it, adds exactly one projectile, at the muzzle of
\* the tank at the cursor, and sets the phase to missiles (or ends the
\* game); a control tick that finds none spawns nothing.
C23_PressConsumedOnce ==
    /\ [](shotLog.shots <= shotLog.presses)
    /\ [][(phase = "control" /\ Update) =>
             IF keyPressed
               THEN /\ ~keyPressed'
                    /\ phase' \in {"missiles", "gameover"}
                    /\ shotLog'.shots = shotLog.shots + 1
                    /\ Len(missiles') = Len(missiles) + 1
                    /\ <<missiles'[Len(missiles')].x, missiles'[Len(missiles')].y>>
                          = MuzzleOf(tanks'[currentTankIndex + 1])
               ELSE /\ missiles' = missiles
                    /\ shotLog'.shots = shotLog.shots
                    /\ phase' \in {"control", "gameover"}]_vars

\* The fire key was pressed once and has been held through two repeats;
\* one projectile was spawned and has left the field, and the next tank is
\* under control with no request pending.
C23_Witness ==
    /\ lastTick.ran
    /\ lastTick.from = "control"
    /\ phase = "control"
    /\ keys["space"]
    /\ ~keyPressed
    /\ events = 3
    /\ shotLog.presses = 1
    /\ shotLog.shots = 1
    /\ currentTankIndex = 1

\* C24: the angle and the power of a tank change only in a control tick, and
\* then only for the tank at the cursor: a control tick leaves the angle and
\* the power of every other tank alone, and no tick of another phase (and
\* no key or health event) changes the angle or the power of any tank.
C24_OnlyActiveTankAimed ==
    [][\A i \in 1 .. Len(tanks) :
          (tanks'[i].angle # tanks[i].angle \/ tanks'[i].power # tanks[i].power)
             => /\ lastTick'.ran
                /\ phase = "control"
                /\ currentTankIndex = i - 1]_vars

\* A control tick with the right key held has turned the turret of the
\* second tank, the one at the cursor; the other two still point where
\* they pointed when they were created.
C24_Witness ==
    /\ lastTick.ran
    /\ lastTick.from = "control"
    /\ currentTankIndex = 1
    /\ keys["right"]
    /\ tanks[2].angle = PI
    /\ tanks[1].angle = TankStartAngle
    /\ tanks[3].angle = TankStartAngle

\* C25: after every control tick the angle of the tank at the cursor lies in
\* [PI, 2 * PI] and its power lies in [10, 100], whatever keys are held,
\* starting from the values a tank has when it is created.
C25_AimWithinLimits ==
    (/\ lastTick.ran
     /\ lastTick.from = "control"
     /\ phase \in {"control", "missiles"}
     /\ currentTankIndex # Undefined)
       => /\ tanks[currentTankIndex + 1].angle \in PI .. (2 * PI)
          /\ tanks[currentTankIndex + 1].power \in MinPower .. MaxPower

\* The half of C25 that is about the angle alone.
C25_AngleWithinLimits ==
    (/\ lastTick.ran
     /\ lastTick.from = "control"
     /\ phase \in {"control", "missiles"}
     /\ currentTankIndex # Undefined)
       => tanks[currentTankIndex + 1].angle \in PI .. (2 * PI)

\* C27: at every change from control to missiles the wind is assigned a
\* freshly drawn value (and it is assigned at no other time).
C27_WindDrawnPerShot ==
    [][IF phase = "control" /\ phase' = "missiles"
         THEN shotLog'.winds = shotLog.winds + 1
         ELSE shotLog'.winds = shotLog.winds]_vars

\* What the engine does instead: the wind is the 0 of construction in every
\* state, before and after every firing.
C27_WindNeverAssigned == wind = 0 /\ shotLog.winds = 0

\* C28: a call of fireMissileFromTank with a tank index below 0 or not below
\* the length of the roster fails loudly, with an error raised.
C28_InvalidIndexFailsLoudly ==
    (/\ lastCall.fn = "fireMissileFromTank"
     /\ (lastCall.tankIndex < 0 \/ lastCall.tankIndex >= Len(tanks)))
       => lastCall.threw

\* What the function does instead: for an index outside the roster it
\* returns with the list of projectiles as it was; for an index inside it
\* adds one projectile.
C28_InvalidIndexReturns ==
    lastCall.fn = "fireMissileFromTank" =>
        /\ ~lastCall.threw
        /\ IF lastCall.tankIndex < 0 \/ lastCall.tankIndex >= Len(tanks)
             THEN missiles = lastCall.missiles
             ELSE Len(missiles) = Len(lastCall.missiles) + 1

\* ------------------------------------------------------------ claims: projectiles
\* What one tick does with one projectile: it leaves the field, it hits, or
\* it is kept where the move put it.
Fate(m0, w, g, ts) ==
    LET m == MoveMissile(m0, w)
        c == checkLineCollision(m0.x, m0.y, m.x, m.y, g, ts)
    IN  IF Lt(m.x, 0) \/ Ge(m.x, WIDTH * Scale) \/ Ge(m.y, HEIGHT * Scale)
          THEN [kind |-> "left"]
        ELSE IF c.kind = "hit"
          THEN [kind |-> "hit",
                explosion |-> [x |-> c.x, y |-> c.y, radius |-> m0.explosionRadius]]
        ELSE [kind |-> "kept", missile |-> m]

Fates == [i \in 1 .. Len(lastCall.missiles) |->
             Fate(lastCall.missiles[i], wind, sand, tanks)]

KeptFates == SelectSeq(Fates, LAMBDA f : f.kind = "kept")

HitFates == SelectSeq(Fates, LAMBDA f : f.kind = "hit")

\* C26: in one call of updateMissiles every projectile is kept (moved), or is
\* removed with no explosion because the move took it over the left, right
\* or bottom edge, or is removed with exactly one explosion at its collision
\* point carrying its radius; the batch after the call holds the explosions
\* created in this call and nothing else (the loop runs from the last
\* projectile to the first, so they stand in that order), whatever the
\* batch held before; and the value returned is true exactly when the batch
\* is not empty.
C26_OneFatePerProjectile ==
    lastCall.fn = "updateMissiles" =>
        /\ missiles = [k \in 1 .. Len(KeptFates) |-> KeptFates[k].missile]
        /\ explosions = [k \in 1 .. Len(HitFates) |->
                            HitFates[Len(HitFates) + 1 - k].explosion]
        /\ lastCall.result = (explosions # <<>>)

\* Two projectiles and an old batch: the first was kept, the second hit a
\* grain, and the batch is the one explosion of the second, with its radius.
C26_Witness ==
    /\ lastCall.fn = "updateMissiles"
    /\ Len(lastCall.missiles) = 2
    /\ lastCall.explosions # <<>>
    /\ Fates[1].kind = "kept"
    /\ Fates[2].kind = "hit"
    /\ Len(missiles) = 1
    /\ Len(explosions) = 1
    /\ explosions[1].radius = lastCall.missiles[2].explosionRadius
    /\ lastCall.missiles[1].explosionRadius # lastCall.missiles[2].explosionRadius
    /\ lastCall.result

\* Two projectiles that both left the field: none is kept, the old batch is
\* gone and nothing is reported.
C26_WitnessLeft ==
    /\ lastCall.fn = "updateMissiles"
    /\ Len(lastCall.missiles) = 2
    /\ lastCall.explosions # <<>>
    /\ missiles = <<>>
    /\ explosions = <<>>
    /\ ~lastCall.result

\* ------------------------------------------------------------ claims: the tanks phase
\* The centre column of tank t holds terrain somewhere.
OverTerrain(g, t) ==
    /\ Floor(t.x) >= 0
    /\ Floor(t.x) < WIDTH
    /\ \E y \in 0 .. (HEIGHT - 1) : g[Idx(Floor(t.x), y)] # 0

\* C29: from every state of the tanks phase with at least two living tanks
\* (the terrain does not change in this phase) the phase eventually becomes
\* control, wherever the tanks stand, a tank over a column with no terrain
\* down to the floor included.
C29_TanksPhaseEnds ==
    (phase = "tanks" /\ Cardinality(Living(tanks)) >= 2) ~> (phase = "control")

\* The same for the tanks that all stand over terrain.
C29_TanksPhaseEndsOverTerrain ==
    (/\ phase = "tanks"
     /\ Cardinality(Living(tanks)) >= 2
     /\ \A i \in 1 .. Len(tanks) : OverTerrain(sand, tanks[i]))
       ~> (phase = "control")

\* Where the engine stays when it does not: a tank over an empty column has
\* been clamped to the bottom edge, its bottom row is one below the grid,
\* and a further tanks tick changes nothing.
C29_StuckAtBottom ==
    /\ phase = "tanks"
    /\ lastTick.ran
    /\ lastTick.from = "tanks"
    /\ \E i \in 1 .. Len(tanks) :
          /\ ~OverTerrain(sand, tanks[i])
          /\ tanks[i].y = HEIGHT * Scale - TANK_RADIUS
          /\ ~OnSand(sand, tanks[i])
    /\ updateTanks(sand, tanks).tanks = tanks

\* C30: resting is stable: on a terrain that does not change, a tank that one
\* call of updateTanks found on sand (and snapped) is found on sand by the
\* next call too, and that call leaves it where it is.
C30_RestingIsStable ==
    [][\A i \in 1 .. Len(tanks) :
          (/\ lastCall.fn = "updateTanks"
           /\ lastCall'.fn = "updateTanks"
           /\ lastCall.onSand[i])
             => /\ lastCall'.onSand[i]
                /\ tanks'[i] = tanks[i]]_vars

\* The first tank rests on the bottom row, where it was snapped to from a
\* little lower, and the call before this state found it resting and left
\* it there, while the second tank was still not resting.
C30_Witness ==
    /\ lastCall.fn = "updateTanks"
    /\ lastCall.onSand[1]
    /\ ~lastCall.onSand[2]
    /\ lastCall.tanks[1] = tanks[1]
    /\ tanks[1].y = (HEIGHT - 1) * Scale - TANK_RADIUS

\* ------------------------------------------------------------ claims: the shot completes
\* C31: every shot completes: once the phase is missiles it eventually is
\* tanks again, unless fewer than two tanks stay alive (the game is then
\* over), as long as the ticks keep coming.
C31_ShotCompletes ==
    (phase = "missiles")
       ~> (phase = "tanks" \/ phase = "gameover" \/ Cardinality(Living(tanks)) < 2)

\* Where the engine stays when it does not: the projectile of a tank without
\* a power has no numeric velocity, and the ray cast of the first missiles
\* tick does not return.
C31_HungInMissiles ==
    /\ hung
    /\ phase = "missiles"
    /\ Len(missiles) = 1
    /\ ~IsNum(missiles[1].vx)
    /\ Cardinality(Living(tanks)) >= 2

\* ------------------------------------------------------------ claims: turn order
\* C32: with all tanks alive and no change of health, the tanks given control
\* on successive turns follow the roster cyclically from tank 0: the k-th
\* entry into the control phase is for tank (k - 1) mod n.
C32_RosterOrder ==
    \A k \in 1 .. Len(shotLog.turns) : shotLog.turns[k] = (k - 1) % tankCount

\* Every tank has had its turn and the first tank is under control again.
C32_Witness ==
    /\ phase = "control"
    /\ Len(shotLog.turns) = tankCount + 1
    /\ shotLog.shots = tankCount
    /\ currentTankIndex = 0
    /\ \A i \in 1 .. Len(tanks) : IsAlive(tanks[i])

\* ------------------------------------------------------------ claims: one projectile
\* C33: in the turn-based engine at most one projectile exists at any time:
\* the list is empty whenever the phase is idle, tanks or control, and the
\* tick that changes the phase from control to missiles leaves exactly the
\* one projectile just fired in it.
C33_AtMostOneProjectile ==
    /\ [](Len(missiles) <= 1)
    /\ [](phase \in {"idle", "tanks", "control"} => missiles = <<>>)
    /\ [][(phase = "control" /\ phase' = "missiles") => Len(missiles') = 1]_vars

\* The second turn: one projectile was fired and is gone, the tanks have
\* come to rest again and the list is empty in the control phase.
C33_Witness ==
    /\ phase = "control"
    /\ Len(shotLog.turns) = 2
    /\ shotLog.shots = 1
    /\ missiles = <<>>
    /\ keyPressed

\* ------------------------------------------------------------ claims: batch and countdown
\* C34: at every tick boundary outside gameover the explosion batch is
\* non-empty only in the explosions phase, the countdown is in 1 .. 30 when
\* the phase is explosions and it is 0 in every other phase.
C34_BatchAndCountdown ==
    phase # "gameover" =>
        /\ explosions # <<>> => phase = "explosions"
        /\ phase = "explosions" => explosionDuration \in 1 .. 30
        /\ phase # "explosions" => explosionDuration = 0

\* The tick that ended the explosions phase: the batch is discarded and the
\* countdown is 0 in the sand phase.
C34_Witness ==
    /\ lastTick.ran
    /\ lastTick.from = "explosions"
    /\ phase = "sand"
    /\ explosions = <<>>
    /\ explosionDuration = 0

\* The last tick boundary of the explosions phase.
C34_WitnessLast ==
    /\ phase = "explosions"
    /\ explosions # <<>>
    /\ explosionDuration = 1

\* ------------------------------------------------------------ claims: the in-place pass
\* C35: in one in-place pass no grain moves more than one row: every
\* relocation goes from a cell of row y - 1 to a cell of row y, and a cell
\* filled in the pass is never the source of a later relocation of the same
\* pass.
C35_OneRowPerPass ==
    lastSettle.ran =>
        /\ \A i \in 1 .. Len(lastSettle.moves) :
              RowOf(lastSettle.moves[i].to) = RowOf(lastSettle.moves[i].from) + 1
        /\ \A i \in 1 .. Len(lastSettle.moves), j \in 1 .. Len(lastSettle.moves) :
              i < j => lastSettle.moves[j].from # lastSettle.moves[i].to

\* A pass in which a cell was emptied by one relocation and filled by a
\* later one (two grains one above the other, both falling).
C35_Witness ==
    /\ lastSettle.ran
    /\ \E i \in 1 .. Len(lastSettle.moves), j \in 1 .. Len(lastSettle.moves) :
          /\ i < j
          /\ lastSettle.moves[j].to = lastSettle.moves[i].from

\* ------------------------------------------------------------ claims: the two passes
\* C36: started from the same grid, one double-buffered pass and one in-place
\* pass return the same changed flag and leave the same number of occupied
\* cells.
C36_SameResultAsInPlace ==
    lastCall.fn = "updateSandBuffered" =>
        /\ lastCall.changed = updateSand(lastCall.before).changed
        /\ Count(sand) = Count(updateSand(lastCall.before).sand)

\* The half of C36 that is about the flag alone.
C36_SameChangedFlag ==
    lastCall.fn = "updateSandBuffered" =>
        lastCall.changed = updateSand(lastCall.before).changed

\* A double-buffered pass has left fewer grains than it started with: two
\* grains set the same cell of nextState.
C36_GrainLost ==
    /\ lastCall.fn = "updateSandBuffered"
    /\ Count(sand) < Count(lastCall.before)
    /\ Count(updateSand(lastCall.before).sand) = Count(lastCall.before)

\* ------------------------------------------------------------ claims: presses outside control
\* C37: a press of the fire key made while the phase is not control is not
\* carried over: every projectile is fired on a press that was made in the
\* control phase.
C37_PressNotCarriedOver ==
    [][(phase = "control" /\ phase' = "missiles") =>
          shotLog.pressedIn = "control"]_vars

\* What the engine does instead: the tanks tick has just entered the first
\* control phase with the request of a press made before it still pending;
\* the next tick fires on it.
C37_PendingAtControl ==
    /\ lastTick.ran
    /\ lastTick.from = "tanks"
    /\ phase = "control"
    /\ keyPressed
    /\ shotLog.pressedIn = "elsewhere"
    /\ shotLog.presses = 1
    /\ shotLog.shots = 0

\* ------------------------------------------------------------ claims: the new roster
\* C38: right after initialisation the roster is playable: as long as nothing
\* outside the engine has changed a tank, every tank has health above 0 and
\* a numeric power, and the ticks do not end the game.
C38_RosterPlayable ==
    (started /\ events = 0) =>
        /\ \A i \in 1 .. Len(tanks) :
              /\ IsAlive(tanks[i])
              /\ IsNum(tanks[i].power)
        /\ Cardinality(Living(tanks)) >= 2
        /\ phase # "gameover"

\* What the engine does instead: the first tick after initialisation, with
\* no event before it, has ended the game with no winner.
C38_OverAtFirstTick ==
    /\ events = 0
    /\ lastTick.ran
    /\ lastTick.from = "sand"
    /\ phase = "gameover"
    /\ currentTankIndex = Undefined
    /\ \A i \in 1 .. Len(tanks) : tanks[i].health = Undefined

\* ------------------------------------------------------------ claims: the start shortcut
\* C39: a ray cast whose start point lies in no cell of the grid (its column
\* is outside 0 .. WIDTH - 1 or its row outside 0 .. HEIGHT - 1) never
\* returns the start point as a collision with the terrain.
C39_StartOutsideNeverHit ==
    (/\ Cast
     /\ ~InGrid(StartCell[1], StartCell[2])
     /\ tanks = <<>>)
       => lastCall.result # [kind |-> "hit", x |-> lastCall.x0, y |-> lastCall.y0]

\* What the function does instead: the start lies one column left of the
\* grid, in a row below the first, and the last cell of the row above is the
\* only occupied one; the start point is returned as a collision.
C39_AliasedStart ==
    /\ Cast
    /\ tanks = <<>>
    /\ StartCell[1] = -1
    /\ StartCell[2] \in 1 .. (HEIGHT - 1)
    /\ Occupied(sand) = {Idx(WIDTH - 1, StartCell[2] - 1)}
    /\ lastCall.result = [kind |-> "hit", x |-> lastCall.x0, y |-> lastCall.y0]

\* The same for the starts above the grid, which the index test does keep
\* out: the index is negative.
C39_StartAboveNeverHit ==
    (/\ Cast
     /\ StartCell[2] < 0
     /\ tanks = <<>>)
       => lastCall.result # [kind |-> "hit", x |-> lastCall.x0, y |-> lastCall.y0]

====
